---- MODULE Spec2Model ----
(***************************************************************************)
(* NAOM transaction script engine: the stack machine of script/lang.rs,    *)
(* the spend-authorisation predicates and the transaction validator of     *)
(* utils/script_utils.rs.                                                  *)
(*                                                                         *)
(* Strings are modelled by their content identity and their length         *)
(* ([id, len]): the code modelled here only compares strings and takes     *)
(* their length.  The cryptographic collaborators are idealised: a         *)
(* signature is the pair (signer, message), so that it verifies under      *)
(* exactly one key and one message, and hashes/addresses are injective.    *)
(***************************************************************************)
EXTENDS Integers, Sequences, FiniteSets, TLC

VARIABLES
    script,           \* Script.stack of the script under evaluation
    phase,            \* "ready" | "running" | "done"
    idx,              \* position of the `for stack_entry in &self.stack` loop
    main_stack,       \* Stack.main_stack
    alt_stack,        \* Stack.alt_stack
    condition_stack,  \* ConditionStack {size, first_false_pos}
    test_for_return,  \* local of interpret
    result,           \* "none" | "true" | "false" | "panic"
    executed,         \* history: number of entries dispatched so far
    breached,         \* history: some entry left |main|+|alt| > MAX_STACK_SIZE
    outpoint_hash,    \* argument of tx_has_valid_p2pkh_sig
    tx_out_pub_key,   \* argument of tx_has_valid_p2pkh_sig
    tx,               \* argument of tx_is_valid
    utxo,             \* the is_in_utxo lookup of tx_is_valid
    call,             \* the template constructor call that built `script`
    new_asset,        \* the asset argument of tx_has_valid_create_script
    druid,            \* argument of druid_expectations_are_met
    batch             \* the transactions given to druid_expectations_are_met

vars == <<script, phase, idx, main_stack, alt_stack, condition_stack,
          test_for_return, result, executed, breached, outpoint_hash,
          tx_out_pub_key, tx, utxo, call, new_asset, druid, batch>>

(***************************************************************************)
(* Program constants                                                       *)
(***************************************************************************)
MAX_SCRIPT_SIZE == 10000
MAX_OPS_PER_SCRIPT == 201
MAX_STACK_SIZE == 1000
MAX_SCRIPT_ITEM_SIZE == 520
ED25519_SIGNATURE_LEN == 64
ED25519_PUBLIC_KEY_LEN == 32
USIZE_BYTES == 8
MAX_PUB_KEYS_PER_MULTISIG == 20

(***************************************************************************)
(* Bounds of the model                                                     *)
(***************************************************************************)
\* usize::MAX scaled down: Num values live in 0..USIZE_MAX
USIZE_MAX == 40
\* longest script enumerated exhaustively over Alphabet
MaxLen == 3
\* number of key pairs
NKeys == 2

Verdict(b) == IF b THEN "true" ELSE "false"

\* Option<T>: None, Some(x)
None == <<>>
Some(x) == <<x>>

(***************************************************************************)
(* Values                                                                  *)
(***************************************************************************)
Str(id, len) == [id |-> id, len |-> len]

Op(c) == [tag |-> "Op", v |-> c]
Num(n) == [tag |-> "Num", v |-> n]
Bytes(s) == [tag |-> "Bytes", v |-> s]
PubKeyHash(s) == [tag |-> "PubKeyHash", v |-> s]
PubKey(k) == [tag |-> "PubKey", v |-> k]
Signature(s) == [tag |-> "Signature", v |-> s]

Keys == 1..NKeys

\* sign_detached(msg, sk_k)
sign_detached(msg, k) == [signer |-> k, msg |-> msg]
\* sign::verify_detached(sig, msg, pk)
verify_detached(sig, msg, pk) == sig.signer = pk /\ sig.msg = msg

NETWORK_VERSION_V0 == 0
NETWORK_VERSION_TEMP == 99999
\* address_version: Option<u64>
Versions == {None, Some(NETWORK_VERSION_V0), Some(NETWORK_VERSION_TEMP), Some(NETWORK_VERSION_V0 + 1)}

construct_address(pk) == Str(<<"address", pk>>, 64)
construct_address_v0(pk) == Str(<<"address_v0", pk>>, 32)
construct_address_temp(pk) == Str(<<"address_temp", pk>>, 64)
construct_address_for(pk, version) ==
    CASE version = Some(NETWORK_VERSION_V0) -> construct_address_v0(pk)
      [] version = Some(NETWORK_VERSION_TEMP) -> construct_address_temp(pk)
      [] OTHER -> construct_address(pk)

(***************************************************************************)
(* Stack (lang.rs)                                                         *)
(***************************************************************************)
\* faulty variant: the stack starts with an entry left on it
Stack_new_leftover == [ok |-> TRUE, main |-> <<Num(1)>>, alt |-> <<>>]

Stack_new == [ok |-> TRUE, main |-> <<>>, alt |-> <<>>]

\* faulty variant: only the main stack is counted
Stack_is_valid_main_only(st) == ~(Len(st.main) > MAX_STACK_SIZE)

Stack_is_valid(st) == ~(Len(st.main) + Len(st.alt) > MAX_STACK_SIZE)

Stack_last(st) == IF st.main = <<>> THEN None ELSE Some(st.main[Len(st.main)])

Fail(st) == [st EXCEPT !.ok = FALSE]

\* faulty variant: an item of MAX_SCRIPT_ITEM_SIZE bytes is rejected
Stack_push_exclusive(st, e) ==
    IF e.tag = "Op" THEN Fail(st)
    ELSE IF e.tag \in {"PubKeyHash", "Bytes"} /\ e.v.len >= MAX_SCRIPT_ITEM_SIZE
    THEN Fail(st)
    ELSE [st EXCEPT !.ok = TRUE, !.main = Append(st.main, e)]

Stack_push(st, e) ==
    IF e.tag = "Op" THEN Fail(st)
    ELSE IF e.tag \in {"PubKeyHash", "Bytes"} /\ e.v.len > MAX_SCRIPT_ITEM_SIZE
    THEN Fail(st)
    ELSE [st EXCEPT !.ok = TRUE, !.main = Append(st.main, e)]

(***************************************************************************)
(* ConditionStack (lang.rs)                                                *)
(***************************************************************************)
ConditionStack_new == [size |-> 0, first_false_pos |-> None]

ConditionStack_all_true(cs) == cs.first_false_pos = None

ConditionStack_is_empty(cs) == cs.size = 0

ConditionStack_push(cs, cond) ==
    [size |-> cs.size + 1,
     first_false_pos |-> IF cs.first_false_pos = None /\ ~cond
                         THEN Some(cs.size) ELSE cs.first_false_pos]

\* faulty variant: the false condition popped is not forgotten
ConditionStack_pop_keeps_false(cs) == [cs EXCEPT !.size = cs.size - 1]

\* after `assert!(self.size > ZERO)`
ConditionStack_pop(cs) ==
    LET size == cs.size - 1
    IN  [size |-> size,
         first_false_pos |-> IF cs.first_false_pos # None /\ cs.first_false_pos[1] = size
                             THEN None ELSE cs.first_false_pos]

\* after `assert!(self.size > ZERO)`
ConditionStack_toggle(cs) ==
    IF cs.first_false_pos # None
    THEN IF cs.first_false_pos[1] = cs.size - 1
         THEN [cs EXCEPT !.first_false_pos = None] ELSE cs
    ELSE [cs EXCEPT !.first_false_pos = Some(cs.size - 1)]

(***************************************************************************)
(* Opcode handlers (script/interface_ops.rs)                               *)
(***************************************************************************)
OpConstValue ==
    [OP_0 |-> 0, OP_1 |-> 1, OP_2 |-> 2, OP_3 |-> 3, OP_4 |-> 4, OP_5 |-> 5,
     OP_6 |-> 6, OP_7 |-> 7, OP_8 |-> 8, OP_9 |-> 9, OP_10 |-> 10,
     OP_11 |-> 11, OP_12 |-> 12, OP_13 |-> 13, OP_14 |-> 14, OP_15 |-> 15,
     OP_16 |-> 16]

Depth(st) == Len(st.main)
Top(st, k) == st.main[Len(st.main) - k]
Drop(st, k) == [st EXCEPT !.main = SubSeq(st.main, 1, Len(st.main) - k)]

op_const(st, c) == Stack_push(st, Num(OpConstValue[c]))

op_nop(st) == st

op_verify(st) ==
    IF Depth(st) < 1 THEN Fail(st)
    ELSE IF Top(st, 0) = Num(0) \/ Top(st, 0).tag # "Num" THEN Fail(st)
    ELSE Drop(st, 1)

op_return(st) == Fail(st)

op_toaltstack(st) ==
    IF Depth(st) < 1 THEN Fail(st)
    ELSE [Drop(st, 1) EXCEPT !.alt = Append(st.alt, Top(st, 0))]

op_fromaltstack(st) ==
    IF st.alt = <<>> THEN Fail(st)
    ELSE [st EXCEPT !.main = Append(st.main, st.alt[Len(st.alt)]),
                    !.alt = SubSeq(st.alt, 1, Len(st.alt) - 1)]

op_drop(st) == IF Depth(st) < 1 THEN Fail(st) ELSE Drop(st, 1)

op_dup(st) == IF Depth(st) < 1 THEN Fail(st) ELSE Stack_push(st, Top(st, 0))

op_equal(st) ==
    IF Depth(st) < 2 THEN Fail(st)
    ELSE Stack_push(Drop(st, 2),
                    IF Top(st, 0) = Top(st, 1) THEN Num(1) ELSE Num(0))

\* faulty variant: the two compared items stay on the stack
op_equalverify_keeps(st) ==
    IF Depth(st) < 2 THEN Fail(st)
    ELSE IF Top(st, 0) # Top(st, 1) THEN Fail(st)
    ELSE st

op_equalverify(st) ==
    IF Depth(st) < 2 THEN Fail(st)
    ELSE IF Top(st, 0) # Top(st, 1) THEN Fail(st)
    ELSE Drop(st, 2)

op_add(st) ==
    IF Depth(st) < 2 THEN Fail(st)
    ELSE IF Top(st, 0).tag # "Num" \/ Top(st, 1).tag # "Num" THEN Fail(st)
    ELSE IF Top(st, 0).v > USIZE_MAX - Top(st, 1).v THEN Fail(st)
    ELSE Stack_push(Drop(st, 2), Num(Top(st, 1).v + Top(st, 0).v))

op_1add(st) ==
    IF Depth(st) < 1 THEN Fail(st)
    ELSE IF Top(st, 0).tag # "Num" THEN Fail(st)
    ELSE IF Top(st, 0).v > USIZE_MAX - 1 THEN Fail(st)
    ELSE Stack_push(Drop(st, 1), Num(Top(st, 0).v + 1))

op_1sub(st) ==
    IF Depth(st) < 1 THEN Fail(st)
    ELSE IF Top(st, 0).tag # "Num" THEN Fail(st)
    ELSE IF Top(st, 0).v < 1 THEN Fail(st)
    ELSE Stack_push(Drop(st, 1), Num(Top(st, 0).v - 1))

op_2mul(st) ==
    IF Depth(st) < 1 THEN Fail(st)
    ELSE IF Top(st, 0).tag # "Num" THEN Fail(st)
    ELSE IF 2 * Top(st, 0).v > USIZE_MAX THEN Fail(st)
    ELSE Stack_push(Drop(st, 1), Num(2 * Top(st, 0).v))

\* pops b then a, pushes a - b
op_sub(st) ==
    IF Depth(st) < 2 THEN Fail(st)
    ELSE IF Top(st, 0).tag # "Num" \/ Top(st, 1).tag # "Num" THEN Fail(st)
    ELSE IF Top(st, 0).v > Top(st, 1).v THEN Fail(st)
    ELSE Stack_push(Drop(st, 2), Num(Top(st, 1).v - Top(st, 0).v))

\* faulty variant: the product wraps around the word
op_mul_wrapping(st) ==
    IF Depth(st) < 2 THEN Fail(st)
    ELSE IF Top(st, 0).tag # "Num" \/ Top(st, 1).tag # "Num" THEN Fail(st)
    ELSE Stack_push(Drop(st, 2),
                    Num((Top(st, 1).v * Top(st, 0).v) % (USIZE_MAX + 1)))

op_mul(st) ==
    IF Depth(st) < 2 THEN Fail(st)
    ELSE IF Top(st, 0).tag # "Num" \/ Top(st, 1).tag # "Num" THEN Fail(st)
    ELSE IF Top(st, 1).v * Top(st, 0).v > USIZE_MAX THEN Fail(st)
    ELSE Stack_push(Drop(st, 2), Num(Top(st, 1).v * Top(st, 0).v))

op_hash256(st) ==
    IF Depth(st) < 1 THEN Fail(st)
    ELSE IF Top(st, 0).tag # "PubKey" THEN Fail(st)
    ELSE Stack_push(Drop(st, 1), PubKeyHash(construct_address(Top(st, 0).v)))

op_hash256_v0(st) ==
    IF Depth(st) < 1 THEN Fail(st)
    ELSE IF Top(st, 0).tag # "PubKey" THEN Fail(st)
    ELSE Stack_push(Drop(st, 1), PubKeyHash(construct_address_v0(Top(st, 0).v)))

op_hash256_temp(st) ==
    IF Depth(st) < 1 THEN Fail(st)
    ELSE IF Top(st, 0).tag # "PubKey" THEN Fail(st)
    ELSE Stack_push(Drop(st, 1), PubKeyHash(construct_address_temp(Top(st, 0).v)))

op_checksig(st) ==
    IF Depth(st) < 3 THEN Fail(st)
    ELSE IF Top(st, 0).tag # "PubKey" \/ Top(st, 1).tag # "Signature"
            \/ Top(st, 2).tag # "Bytes" THEN Fail(st)
    ELSE Stack_push(Drop(st, 3),
                    IF verify_detached(Top(st, 1).v, Top(st, 2).v, Top(st, 0).v)
                    THEN Num(1) ELSE Num(0))

\* faulty variant: the keys are tried in list order only, as are the signatures
match_sigs_in_order(sigs, msg, pks) ==
    \E f \in [DOMAIN sigs -> DOMAIN pks] :
        /\ \A i, j \in DOMAIN sigs : i < j => f[i] < f[j]
        /\ \A i \in DOMAIN sigs : verify_detached(sigs[i], msg, pks[f[i]])

\* faulty variant: a key that matched stays available to later signatures
match_sigs_keys_reused(sigs, msg, pks) ==
    \A i \in DOMAIN sigs : \E j \in DOMAIN pks : verify_detached(sigs[i], msg, pks[j])

\* every signature of sigs verifies msg under a key of pks of its own:
\* each signature takes the first key left that it verifies under
RECURSIVE match_sigs(_, _, _)
match_sigs(sigs, msg, pks) ==
    IF sigs = <<>> THEN TRUE
    ELSE LET hits == {i \in DOMAIN pks : verify_detached(Head(sigs), msg, pks[i])}
         IN  IF hits = {} THEN FALSE
             ELSE LET i == CHOOSE h \in hits : \A j \in hits : h <= j
                  IN  match_sigs(Tail(sigs), msg,
                                 [k \in 1..(Len(pks) - 1) |->
                                    IF k < i THEN pks[k] ELSE pks[k + 1]])

\* pops n, n public keys, m, m signatures and the message
op_checkmultisig(st) ==
    IF Depth(st) < 1 THEN Fail(st)
    ELSE IF Top(st, 0).tag # "Num" THEN Fail(st)
    ELSE LET n == Top(st, 0).v
         IN  IF n > MAX_PUB_KEYS_PER_MULTISIG THEN Fail(st)
             ELSE IF Depth(st) < n + 2 THEN Fail(st)
             ELSE IF \E k \in 1..n : Top(st, k).tag # "PubKey" THEN Fail(st)
             ELSE IF Top(st, n + 1).tag # "Num" THEN Fail(st)
             ELSE LET m == Top(st, n + 1).v
                  IN  IF m > n THEN Fail(st)
                      ELSE IF Depth(st) < n + m + 3 THEN Fail(st)
                      ELSE IF \E k \in (n + 2)..(n + m + 1) :
                                 Top(st, k).tag # "Signature" THEN Fail(st)
                      ELSE IF Top(st, n + m + 2).tag # "Bytes" THEN Fail(st)
                      ELSE LET pks == [k \in 1..n |-> Top(st, n + 1 - k).v]
                               sigs == [k \in 1..m |-> Top(st, n + m + 2 - k).v]
                               msg == Top(st, n + m + 2).v
                           IN  Stack_push(Drop(st, n + m + 3),
                                          IF match_sigs(sigs, msg, pks)
                                          THEN Num(1) ELSE Num(0))

(***************************************************************************)
(* Script (lang.rs)                                                        *)
(***************************************************************************)
EntryBytes(entry) ==
    CASE entry.tag = "Op" -> 1
      [] entry.tag = "Signature" -> ED25519_SIGNATURE_LEN
      [] entry.tag = "PubKey" -> ED25519_PUBLIC_KEY_LEN
      [] entry.tag \in {"PubKeyHash", "Bytes"} -> entry.v.len
      [] entry.tag = "Num" -> USIZE_BYTES

\* the `for entry in &self.stack` loop of is_valid: [len, ops_count] summed
\* over the entries lo..hi (the sums are split in halves to bound the depth
\* of the evaluation)
RECURSIVE Script_measure(_, _, _)
Script_measure(s, lo, hi) ==
    IF lo > hi THEN [len |-> 0, ops_count |-> 0]
    ELSE IF lo = hi
    THEN [len |-> EntryBytes(s[lo]),
          ops_count |-> IF s[lo].tag = "Op" THEN 1 ELSE 0]
    ELSE LET mid == (lo + hi) \div 2
             a == Script_measure(s, lo, mid)
             b == Script_measure(s, mid + 1, hi)
         IN  [len |-> a.len + b.len, ops_count |-> a.ops_count + b.ops_count]

\* faulty variant: a script of exactly MAX_SCRIPT_SIZE bytes is rejected
Script_is_valid_exclusive(s) ==
    LET m == Script_measure(s, 1, Len(s))
    IN  IF m.len >= MAX_SCRIPT_SIZE THEN FALSE
        ELSE IF m.ops_count > MAX_OPS_PER_SCRIPT THEN FALSE
        ELSE TRUE

Script_is_valid(s) ==
    LET m == Script_measure(s, 1, Len(s))
    IN  IF m.len > MAX_SCRIPT_SIZE THEN FALSE
        ELSE IF m.ops_count > MAX_OPS_PER_SCRIPT THEN FALSE
        ELSE TRUE

\* the opcodes of OpCodes that no arm of the match in interpret names
UndispatchedOps ==
    { "OP_IF", "OP_NOTIF", "OP_ELSE", "OP_ENDIF",
      "OP_CAT", "OP_SUBSTR", "OP_LEFT", "OP_RIGHT",
      "OP_INVERT", "OP_AND", "OP_OR", "OP_XOR",
      "OP_2MUL", "OP_2DIV", "OP_MUL", "OP_DIV", "OP_MOD",
      "OP_LSHIFT", "OP_RSHIFT" }

\* faulty variant: an opcode without an arm is skipped
invalid_opcode_skipped(st) == st

\* the arm `_ => { error_invalid_opcode(); return false; }`
invalid_opcode(st) == Fail(st)

\* the arms of the match in interpret that name an opcode
ExecOp(c, st) ==
    CASE c \in DOMAIN OpConstValue -> op_const(st, c)
      [] c = "OP_NOP" -> op_nop(st)
      [] c = "OP_VERIFY" -> op_verify(st)
      [] c = "OP_RETURN" -> op_return(st)
      [] c = "OP_TOALTSTACK" -> op_toaltstack(st)
      [] c = "OP_FROMALTSTACK" -> op_fromaltstack(st)
      [] c = "OP_DROP" -> op_drop(st)
      [] c = "OP_DUP" -> op_dup(st)
      [] c = "OP_EQUAL" -> op_equal(st)
      [] c = "OP_EQUALVERIFY" -> op_equalverify(st)
      [] c = "OP_1ADD" -> op_1add(st)
      [] c = "OP_1SUB" -> op_1sub(st)
      [] c = "OP_ADD" -> op_add(st)
      [] c = "OP_SUB" -> op_sub(st)
      [] c = "OP_CREATE" -> st
      [] c = "OP_HASH256" -> op_hash256(st)
      [] c = "OP_HASH256_V0" -> op_hash256_v0(st)
      [] c = "OP_HASH256_TEMP" -> op_hash256_temp(st)
      [] c = "OP_CHECKSIG" -> op_checksig(st)
      [] c = "OP_CHECKMULTISIG" -> op_checkmultisig(st)
      [] c \in UndispatchedOps -> invalid_opcode(st)

\* one iteration of the loop of interpret: the match on stack_entry
ExecEntry(entry, st) ==
    IF entry.tag = "Op" THEN ExecOp(entry.v, st) ELSE Stack_push(st, entry)

\* the value returned after the loop
\* faulty variant: the top of the stack is not looked at
FinalVerdict_unchecked(tfr, st) == tfr

\* faulty variant: an empty main stack is a failure
FinalVerdict_nonempty(tfr, st) ==
    tfr /\ st.main # <<>> /\ Stack_last(st) # Some(Num(0))

FinalVerdict(tfr, st) == tfr /\ Stack_last(st) # Some(Num(0))

RECURSIVE interpret_from(_, _, _)
interpret_from(s, i, st) ==
    IF i > Len(s) THEN FinalVerdict(TRUE, st)
    ELSE LET r == ExecEntry(s[i], st)
         IN  IF ~r.ok \/ ~Stack_is_valid(r) THEN FALSE
             ELSE interpret_from(s, i + 1, r)

interpret(s) ==
    IF ~Script_is_valid(s) THEN FALSE ELSE interpret_from(s, 1, Stack_new)

\* the loop of interpret over the entries lo..hi, from stack st; a run that
\* has returned false keeps ok = FALSE (the entries are split in halves to
\* bound the depth of the evaluation, as in Script_measure)
RECURSIVE run_entries(_, _, _, _)
run_entries(s, lo, hi, st) ==
    IF lo > hi \/ ~st.ok THEN st
    ELSE IF lo = hi
    THEN LET r == ExecEntry(s[lo], st)
         IN  IF ~r.ok \/ ~Stack_is_valid(r) THEN Fail(r) ELSE r
    ELSE LET mid == (lo + hi) \div 2
         IN  run_entries(s, mid + 1, hi, run_entries(s, lo, mid, st))

\* Script::interpret, evaluated by halves
interpret_halved(s) ==
    IF ~Script_is_valid(s) THEN FALSE
    ELSE LET r == run_entries(s, 1, Len(s), Stack_new)
         IN  r.ok /\ FinalVerdict(TRUE, r)

\* faulty variant: the hash opcode does not follow the address version
pay2pkh_fixed_hash(check_data, signature, pub_key, address_version) ==
    << Bytes(check_data), Signature(signature), PubKey(pub_key),
       Op("OP_DUP"), Op("OP_HASH256"),
       PubKeyHash(construct_address_for(pub_key, address_version)),
       Op("OP_EQUALVERIFY"), Op("OP_CHECKSIG") >>

\* Script::pay2pkh
pay2pkh(check_data, signature, pub_key, address_version) ==
    LET new_key == construct_address_for(pub_key, address_version)
        op_hash_256 ==
            CASE address_version = Some(NETWORK_VERSION_V0) -> "OP_HASH256_V0"
              [] address_version = Some(NETWORK_VERSION_TEMP) -> "OP_HASH256_TEMP"
              [] OTHER -> "OP_HASH256"
    IN  << Bytes(check_data), Signature(signature), PubKey(pub_key),
           Op("OP_DUP"), Op(op_hash_256), PubKeyHash(new_key),
           Op("OP_EQUALVERIFY"), Op("OP_CHECKSIG") >>

\* Script::new_for_coinbase
new_for_coinbase(block_number) == <<Num(block_number)>>

\* Script::new_create_asset
new_create_asset(block_number, asset_hash, signature, pub_key) ==
    << Op("OP_CREATE"), Num(block_number), Op("OP_DROP"), Bytes(asset_hash),
       Signature(signature), PubKey(pub_key), Op("OP_CHECKSIG") >>

\* Script::member_multisig
member_multisig(check_data, pub_key, signature) ==
    << Bytes(check_data), Signature(signature), PubKey(pub_key),
       Op("OP_CHECKSIG") >>

PubKeyEntries(pub_keys) == [i \in DOMAIN pub_keys |-> PubKey(pub_keys[i])]
SignatureEntries(signatures) ==
    [i \in DOMAIN signatures |-> Signature(signatures[i])]

\* faulty variant: m > n is not rejected
multisig_rejects_keys_only(m, n, len) == n > len \/ m > len

\* the two error branches that open multisig_lock and multisig_validation
multisig_rejects(m, n, len) ==
    IF n > len \/ m > len THEN TRUE
    ELSE IF m > n THEN TRUE
    ELSE FALSE

\* Script::multisig_lock
multisig_lock(m, n, check_data, pub_keys) ==
    IF multisig_rejects(m, n, Len(pub_keys)) THEN <<>>
    ELSE <<Bytes(check_data), Num(m)>> \o PubKeyEntries(pub_keys)
            \o <<Num(n), Op("OP_CHECKMULTISIG")>>

\* Script::multisig_unlock
multisig_unlock(check_data, signatures) ==
    <<Bytes(check_data)>> \o SignatureEntries(signatures)

\* faulty variant: the public keys are placed before the signatures
multisig_validation_keys_first(m, n, check_data, signatures, pub_keys) ==
    IF multisig_rejects(m, n, Len(pub_keys)) THEN <<>>
    ELSE <<Bytes(check_data), Num(m)>> \o PubKeyEntries(pub_keys)
            \o SignatureEntries(signatures) \o <<Num(n), Op("OP_CHECKMULTISIG")>>

\* Script::multisig_validation
multisig_validation(m, n, check_data, signatures, pub_keys) ==
    IF multisig_rejects(m, n, Len(pub_keys)) THEN <<>>
    ELSE <<Bytes(check_data)>> \o SignatureEntries(signatures) \o <<Num(m)>>
            \o PubKeyEntries(pub_keys) \o <<Num(n), Op("OP_CHECKMULTISIG")>>

(***************************************************************************)
(* Inputs                                                                  *)
(***************************************************************************)
Repeat(e, n) == [i \in 1..n |-> e]

HexLit(n) == Str(<<"hex", n>>, 6)

\* entries of the exhaustively enumerated scripts
Alphabet ==
    { Op("OP_0"), Op("OP_1"), Op("OP_2"), Op("OP_NOP"), Op("OP_VERIFY"),
      Op("OP_DROP"), Op("OP_DUP"), Op("OP_EQUAL"), Op("OP_ADD"),
      Op("OP_TOALTSTACK"), Op("OP_IF"), Op("OP_ENDIF"),
      Num(0), Bytes(HexLit(0)) }

ShortScripts == UNION {[1..n -> Alphabet] : n \in 0..MaxLen}

\* [c, OP_IF | OP_NOTIF, A, OP_ELSE, B, OP_ENDIF]
ConditionalScripts ==
    { << Op(c), Op(i), Op(a), Op("OP_ELSE"), Op(b), Op("OP_ENDIF") >> :
        c \in {"OP_0", "OP_1"}, i \in {"OP_IF", "OP_NOTIF"},
        a \in {"OP_0", "OP_2"}, b \in {"OP_0", "OP_3"} }

\* the scripts of test_conditionals whose conditionals do not pair up
UnbalancedScripts ==
    { <<Op("OP_1"), Op("OP_IF"), Op("OP_1")>>,
      <<Op("OP_1"), Op("OP_IF"), Op("OP_1"), Op("OP_ELSE"), Op("OP_3")>>,
      <<Op("OP_1"), Op("OP_NOTIF"), Op("OP_1"), Op("OP_ELSE"), Op("OP_3")>>,
      <<Op("OP_1"), Op("OP_IF"), Op("OP_2"), Op("OP_IF"), Op("OP_3"),
        Op("OP_ENDIF")>>,
      <<Op("OP_2"), Op("OP_ELSE"), Op("OP_3"), Op("OP_ENDIF")>>,
      <<Op("OP_IF")>>, <<Op("OP_NOTIF")>>, <<Op("OP_ELSE")>>, <<Op("OP_ENDIF")>> }

\* scripts at the limits of is_valid and of the stack
LimitScripts ==
    LET big == Bytes(Str(<<"a">>, 500))
        sig == Signature(sign_detached(HexLit(0), 1))
    IN  { Repeat(big, 20), Repeat(big, 21), Repeat(big, 20) \o <<Op("OP_1")>>,
          Repeat(Op("OP_1"), MAX_OPS_PER_SCRIPT),
          Repeat(Op("OP_1"), MAX_OPS_PER_SCRIPT + 1),
          Repeat(Op("OP_NOP"), MAX_OPS_PER_SCRIPT) \o <<Num(1)>>,
          Repeat(Num(1), MAX_STACK_SIZE),
          Repeat(Num(1), MAX_STACK_SIZE + 1),
          Repeat(Num(1), MAX_STACK_SIZE) \o <<Op("OP_TOALTSTACK"), Num(1), Num(1)>>,
          Repeat(Num(1), MAX_STACK_SIZE) \o <<Op("OP_DROP"), Num(1)>>,
          Repeat(Num(1), 1250), Repeat(Num(1), 1251),
          Repeat(sig, 156) \o <<Bytes(Str(<<"a">>, 16))>>,
          Repeat(sig, 156) \o <<Bytes(Str(<<"a">>, 17))>>,
          Repeat(PubKey(1), 312) \o <<PubKeyHash(Str(<<"a">>, 16))>>,
          Repeat(PubKey(1), 312) \o <<PubKeyHash(Str(<<"a">>, 16)), Op("OP_1")>> }

Msgs == {HexLit(0), HexLit(1)}
Sigs == {sign_detached(m, k) : m \in Msgs, k \in Keys}

Pay2pkhScripts ==
    { pay2pkh(m, sg, pk, v) : m \in Msgs, sg \in Sigs, pk \in Keys, v \in Versions }

\* one script per opcode whose handler the tests exercise and interpret does
\* not dispatch: well-typed operands in range, a non-zero result
CatalogueScripts ==
    LET hello == Bytes(Str(<<"hello">>, 5))
        world == Bytes(Str(<<"world">>, 5))
    IN  { <<hello, world, Op("OP_CAT")>>,
          <<hello, Num(1), Num(2), Op("OP_SUBSTR")>>,
          <<hello, Num(2), Op("OP_LEFT")>>,
          <<hello, Num(2), Op("OP_RIGHT")>>,
          <<Num(0), Op("OP_INVERT")>>,
          <<Num(1), Num(3), Op("OP_AND")>>,
          <<Num(1), Num(2), Op("OP_OR")>>,
          <<Num(1), Num(2), Op("OP_XOR")>>,
          <<Num(1), Op("OP_2MUL")>>,
          <<Num(2), Op("OP_2DIV")>>,
          <<Op("OP_2"), Op("OP_3"), Op("OP_MUL")>>,
          <<Num(4), Num(2), Op("OP_DIV")>>,
          <<Num(3), Num(2), Op("OP_MOD")>>,
          <<Num(1), Num(2), Op("OP_LSHIFT")>>,
          <<Num(4), Num(1), Op("OP_RSHIFT")>> }

InterpretInputs ==
    ShortScripts \cup ConditionalScripts \cup UnbalancedScripts
        \cup CatalogueScripts \cup LimitScripts \cup Pay2pkhScripts

(***************************************************************************)
(* Script::interpret as a state machine                                    *)
(***************************************************************************)
Idle ==
    /\ phase = "ready" /\ idx = 1
    /\ main_stack = Stack_new.main /\ alt_stack = Stack_new.alt
    /\ condition_stack = ConditionStack_new /\ test_for_return = TRUE
    /\ result = "none" /\ executed = 0 /\ breached = FALSE

Init ==
    /\ script \in InterpretInputs
    /\ Idle
    /\ outpoint_hash = None /\ tx_out_pub_key = None /\ tx = None /\ utxo = None
    /\ call = None /\ new_asset = None /\ druid = None /\ batch = None

\* interpret, up to the loop: `if !self.is_valid() { return false; }`
InterpretBegin ==
    /\ phase = "ready"
    /\ IF ~Script_is_valid(script)
       THEN phase' = "done" /\ result' = "false"
       ELSE phase' = "running" /\ result' = result
    /\ UNCHANGED <<script, idx, main_stack, alt_stack, condition_stack,
                   test_for_return, executed, breached, outpoint_hash,
                   tx_out_pub_key, tx, utxo, call,
                   new_asset, druid, batch>>

\* faulty variant: a false handler result does not end the loop
loop_exit_stack_only(tfr, st) == ~Stack_is_valid(st)

\* `if !test_for_return || !stack.is_valid() { return false; }`
loop_exit(tfr, st) == ~tfr \/ ~Stack_is_valid(st)

\* faulty variant: the entry that follows an OP_NOP is jumped over
InterpretStep_jumps ==
    /\ phase = "running" /\ idx <= Len(script)
    /\ LET r == ExecEntry(script[idx],
                          [ok |-> TRUE, main |-> main_stack, alt |-> alt_stack])
       IN  /\ main_stack' = r.main
           /\ alt_stack' = r.alt
           /\ test_for_return' = (test_for_return /\ r.ok)
           /\ executed' = executed + 1
           /\ breached' = (breached \/ Len(r.main) + Len(r.alt) > MAX_STACK_SIZE)
           /\ IF loop_exit(test_for_return /\ r.ok, r)
              THEN phase' = "done" /\ result' = "false" /\ idx' = idx
              ELSE /\ phase' = phase /\ result' = result
                   /\ idx' = IF script[idx] = Op("OP_NOP") THEN idx + 2 ELSE idx + 1
    /\ UNCHANGED <<script, condition_stack, outpoint_hash, tx_out_pub_key, tx, utxo, call,
                   new_asset, druid, batch>>

\* one iteration of the loop
InterpretStep ==
    /\ phase = "running" /\ idx <= Len(script)
    /\ LET r == ExecEntry(script[idx],
                          [ok |-> TRUE, main |-> main_stack, alt |-> alt_stack])
       IN  /\ main_stack' = r.main
           /\ alt_stack' = r.alt
           /\ test_for_return' = (test_for_return /\ r.ok)
           /\ executed' = executed + 1
           /\ breached' = (breached \/ Len(r.main) + Len(r.alt) > MAX_STACK_SIZE)
           /\ IF loop_exit(test_for_return /\ r.ok, r)
              THEN phase' = "done" /\ result' = "false" /\ idx' = idx
              ELSE phase' = phase /\ result' = result /\ idx' = idx + 1
    /\ UNCHANGED <<script, condition_stack, outpoint_hash, tx_out_pub_key, tx, utxo, call,
                   new_asset, druid, batch>>

\* the end of the loop: the final expression
InterpretEnd ==
    /\ phase = "running" /\ idx > Len(script)
    /\ phase' = "done"
    /\ result' = Verdict(FinalVerdict(test_for_return,
                                      [main |-> main_stack, alt |-> alt_stack]))
    /\ UNCHANGED <<script, idx, main_stack, alt_stack, condition_stack,
                   test_for_return, executed, breached, outpoint_hash,
                   tx_out_pub_key, tx, utxo, call,
                   new_asset, druid, batch>>

Next == InterpretBegin \/ InterpretStep \/ InterpretEnd

Spec == Init /\ [][Next]_vars

(***************************************************************************)
(* Spend-authorisation predicates (script_utils.rs)                        *)
(***************************************************************************)
\* script.stack.iter(): the i-th call of it.next()
it_next(s, i) == IF i <= Len(s) THEN Some(s[i]) ELSE None

IsEntry(o, tag) == o # None /\ o[1].tag = tag
IsOp(o, codes) == o # None /\ o[1].tag = "Op" /\ o[1].v \in codes

\* faulty variant: the tuple pattern lacks its final None
P2pkhPattern_open(s) ==
    /\ IsEntry(it_next(s, 1), "Bytes")
    /\ IsEntry(it_next(s, 2), "Signature")
    /\ IsEntry(it_next(s, 3), "PubKey")
    /\ IsOp(it_next(s, 4), {"OP_DUP"})
    /\ IsOp(it_next(s, 5), {"OP_HASH256", "OP_HASH256_V0", "OP_HASH256_TEMP"})
    /\ IsEntry(it_next(s, 6), "PubKeyHash")
    /\ IsOp(it_next(s, 7), {"OP_EQUALVERIFY"})
    /\ IsOp(it_next(s, 8), {"OP_CHECKSIG"})

\* the `if let (...) = (it.next(), ..., it.next())` of tx_has_valid_p2pkh_sig
P2pkhPattern(s) ==
    /\ IsEntry(it_next(s, 1), "Bytes")
    /\ IsEntry(it_next(s, 2), "Signature")
    /\ IsEntry(it_next(s, 3), "PubKey")
    /\ IsOp(it_next(s, 4), {"OP_DUP"})
    /\ IsOp(it_next(s, 5), {"OP_HASH256", "OP_HASH256_V0", "OP_HASH256_TEMP"})
    /\ IsEntry(it_next(s, 6), "PubKeyHash")
    /\ IsOp(it_next(s, 7), {"OP_EQUALVERIFY"})
    /\ IsOp(it_next(s, 8), {"OP_CHECKSIG"})
    /\ it_next(s, 9) = None

tx_has_valid_p2pkh_sig(s, hash, pub_key) ==
    IF P2pkhPattern(s)
    THEN LET b == s[1].v
             h == s[6].v
         IN  IF h = pub_key /\ b = hash /\ interpret(s) THEN TRUE ELSE FALSE
    ELSE FALSE

construct_p2sh_address(s) == Str(<<"p2sh", s>>, 64)

\* faulty variant: the address is not compared
tx_has_valid_p2sh_script_any_address(s, address) == interpret(s)

tx_has_valid_p2sh_script(s, address) ==
    IF construct_p2sh_address(s) = address THEN interpret(s) ELSE FALSE

\* faulty variant: only the 64-character addresses are accepted
address_has_valid_length_64_only(address) == address.len = 64

address_has_valid_length(address) == address.len = 32 \/ address.len = 64

(***************************************************************************)
(* Transactions and assets (primitives)                                    *)
(***************************************************************************)
Token(amount) ==
    [kind |-> "Token", amount |-> amount, drs_tx_hash |-> None, metadata |-> None]
Receipt(amount, drs_tx_hash, metadata) ==
    [kind |-> "Receipt", amount |-> amount, drs_tx_hash |-> drs_tx_hash,
     metadata |-> metadata]

OutPoint(t_hash, n) == [t_hash |-> t_hash, n |-> n]
TxIn(previous_out, script_signature) ==
    [previous_out |-> previous_out, script_signature |-> script_signature]
TxOut(value, script_public_key) ==
    [value |-> value, script_public_key |-> script_public_key]

construct_tx_in_signable_hash(out_point) == Str(<<"signable_hash", out_point>>, 64)

\* Asset::with_fixed_hash
with_fixed_hash(asset, out_point) ==
    IF asset.kind = "Receipt" /\ asset.drs_tx_hash = None
    THEN [asset EXCEPT !.drs_tx_hash = Some(out_point.t_hash)]
    ELSE asset

\* AssetValues: the token total and the map drs_tx_hash -> receipt amount
AssetValues_default == [tokens |-> 0, receipts |-> <<>>]

AssetValues_update_add(av, asset) ==
    CASE asset.kind = "Token" -> [av EXCEPT !.tokens = @ + asset.amount]
      [] asset.kind = "Receipt" /\ asset.drs_tx_hash # None ->
            LET d == asset.drs_tx_hash[1]
                known == {av.receipts[i][1] : i \in DOMAIN av.receipts}
            IN  IF d \in known
                THEN [av EXCEPT !.receipts =
                        [i \in DOMAIN av.receipts |->
                            IF av.receipts[i][1] = d
                            THEN <<d, av.receipts[i][2] + asset.amount>>
                            ELSE av.receipts[i]]]
                ELSE [av EXCEPT !.receipts = Append(@, <<d, asset.amount>>)]
      [] OTHER -> av

\* equality of the token totals and of the receipt maps
AssetValues_is_equal(a, b) ==
    /\ a.tokens = b.tokens
    /\ {a.receipts[i] : i \in DOMAIN a.receipts}
         = {b.receipts[i] : i \in DOMAIN b.receipts}

(***************************************************************************)
(* Transaction validator (script_utils.rs)                                 *)
(***************************************************************************)
RECURSIVE tx_outs_loop(_, _, _)
tx_outs_loop(tx_outs, i, tx_outs_spent) ==
    IF i > Len(tx_outs) THEN [ok |-> TRUE, spent |-> tx_outs_spent]
    ELSE IF /\ tx_outs[i].script_public_key # None
            /\ ~address_has_valid_length(tx_outs[i].script_public_key[1])
    THEN [ok |-> FALSE, spent |-> tx_outs_spent]
    ELSE tx_outs_loop(tx_outs, i + 1,
                      AssetValues_update_add(tx_outs_spent, tx_outs[i].value))

\* faulty variant: only the token totals are compared
tx_outs_are_valid_tokens_only(tx_outs, tx_ins_spent) ==
    LET r == tx_outs_loop(tx_outs, 1, AssetValues_default)
    IN  r.ok /\ r.spent.tokens = tx_ins_spent.tokens

tx_outs_are_valid(tx_outs, tx_ins_spent) ==
    LET r == tx_outs_loop(tx_outs, 1, AssetValues_default)
    IN  r.ok /\ AssetValues_is_equal(r.spent, tx_ins_spent)

\* faulty variant: AND instead of OR between the two conditions on a Receipt
receipt_outputs_malformed_both(t) ==
    \E i \in DOMAIN t.outputs :
        /\ t.outputs[i].value.kind = "Receipt"
        /\ (t.outputs[i].value.drs_tx_hash = None
              /\ t.outputs[i].value.metadata # None)

\* the `tx.outputs.iter().any(..)` of tx_is_valid
receipt_outputs_malformed(t) ==
    \E i \in DOMAIN t.outputs :
        /\ t.outputs[i].value.kind = "Receipt"
        /\ (t.outputs[i].value.drs_tx_hash = None
              \/ t.outputs[i].value.metadata # None)

\* the body of `for tx_in in &tx.inputs`, up to the update of tx_ins_spent:
\* "panic" (unwrap of an absent previous_out), "false" (return false), "ok"
tx_in_check(tx_in, u) ==
    IF tx_in.previous_out = None THEN "panic"
    ELSE LET tx_out_point == tx_in.previous_out[1]
         IN  IF u[tx_out_point] = None THEN "false"
             ELSE LET tx_out == u[tx_out_point][1]
                      tx_out_pk == tx_out.script_public_key
                      tx_out_hash == construct_tx_in_signable_hash(tx_out_point)
                  IN  IF tx_out_pk # None
                      THEN IF /\ ~tx_has_valid_p2pkh_sig(tx_in.script_signature,
                                                         tx_out_hash, tx_out_pk[1])
                              /\ ~tx_has_valid_p2sh_script(tx_in.script_signature,
                                                           tx_out_pk[1])
                           THEN "false" ELSE "ok"
                      ELSE "false"

RECURSIVE tx_ins_loop(_, _, _, _)
tx_ins_loop(t, u, i, tx_ins_spent) ==
    IF i > Len(t.inputs) THEN [r |-> "ok", spent |-> tx_ins_spent]
    ELSE LET c == tx_in_check(t.inputs[i], u)
         IN  IF c # "ok" THEN [r |-> c, spent |-> tx_ins_spent]
             ELSE LET tx_out_point == t.inputs[i].previous_out[1]
                      asset == with_fixed_hash(u[tx_out_point][1].value, tx_out_point)
                  IN  tx_ins_loop(t, u, i + 1,
                                  AssetValues_update_add(tx_ins_spent, asset))

\* "true" | "false" | "panic"
tx_is_valid(t, u) ==
    IF receipt_outputs_malformed(t) THEN "false"
    ELSE LET ins == tx_ins_loop(t, u, 1, AssetValues_default)
         IN  IF ins.r # "ok" THEN ins.r
             ELSE Verdict(tx_outs_are_valid(t.outputs, ins.spent))

(***************************************************************************)
(* tx_has_valid_p2pkh_sig applied to bounded inputs                        *)
(***************************************************************************)
Addresses == {construct_address_for(pk, v) : pk \in Keys, v \in Versions}

\* one well-formed script per address version
BaseScripts ==
    { pay2pkh(HexLit(0), sign_detached(HexLit(0), 1), 1, v) : v \in Versions }

Replacements ==
    { Op("OP_NOP"), Op("OP_DUP"), Op("OP_HASH256"), Op("OP_HASH256_V0"),
      Op("OP_EQUALVERIFY"), Op("OP_CHECKSIG"), Bytes(HexLit(1)),
      PubKeyHash(construct_address(1)), PubKey(1), Num(1) }

\* prefixes, one-entry extensions and one-entry replacements of the base scripts
StructuralVariants ==
    UNION { {SubSeq(b, 1, n) : n \in 0..Len(b)}
              \cup {b \o <<e>> : e \in {Op("OP_1"), Op("OP_NOP"), Num(0)}}
              \cup {[b EXCEPT ![k] = e] : k \in DOMAIN b, e \in Replacements}
            : b \in BaseScripts }

P2pkhInputs == Pay2pkhScripts \cup StructuralVariants

InitP2pkh ==
    /\ script \in P2pkhInputs
    /\ outpoint_hash \in Msgs
    /\ tx_out_pub_key \in Addresses
    /\ Idle
    /\ tx = None /\ utxo = None /\ call = None /\ new_asset = None /\ druid = None /\ batch = None

TxHasValidP2pkhSig ==
    /\ phase = "ready"
    /\ phase' = "done"
    /\ result' = Verdict(tx_has_valid_p2pkh_sig(script, outpoint_hash, tx_out_pub_key))
    /\ UNCHANGED <<script, idx, main_stack, alt_stack, condition_stack,
                   test_for_return, executed, breached, outpoint_hash,
                   tx_out_pub_key, tx, utxo, call,
                   new_asset, druid, batch>>

NextP2pkh == TxHasValidP2pkhSig

SpecP2pkh == InitP2pkh /\ [][NextP2pkh]_vars

(***************************************************************************)
(* tx_is_valid applied to bounded transactions and UTXO sets               *)
(***************************************************************************)
\* most inputs and most outputs of a transaction
MaxIns == 2

MaxOuts == 2

TxHash(n) == Str(<<"tx", n>>, 6)
OutPoint1 == OutPoint(TxHash(1), 0)
OutPoint2 == OutPoint(TxHash(2), 0)

\* a script any redeemer can satisfy, locked by its P2SH address
RedeemScript == <<Op("OP_1")>>

\* the P2PKH script spending out_point, signed by key `signer` for key `owner`
SpendScript(out_point, signer, owner) ==
    LET h == construct_tx_in_signable_hash(out_point)
    IN  pay2pkh(h, sign_detached(h, signer), owner, None)

UtxoSets ==
    { [op \in {OutPoint1, OutPoint2} |-> IF op = OutPoint1 THEN a ELSE b] :
        a \in { None,
                Some(TxOut(Token(1), Some(construct_address(1)))),
                Some(TxOut(Receipt(1, None, None), Some(construct_address(1)))) },
        b \in { Some(TxOut(Token(1), Some(construct_p2sh_address(RedeemScript)))),
                Some(TxOut(Receipt(1, Some(TxHash(2)), None),
                           Some(construct_address(2)))),
                Some(TxOut(Token(1), None)) } }

TxIns ==
    { TxIn(Some(OutPoint1), SpendScript(OutPoint1, 1, 1)),
      TxIn(Some(OutPoint1), SpendScript(OutPoint1, 2, 1)),
      TxIn(Some(OutPoint2), SpendScript(OutPoint2, 2, 2)),
      TxIn(Some(OutPoint2), RedeemScript),
      TxIn(None, RedeemScript) }

TxOuts ==
    { TxOut(Token(1), Some(construct_address(2))),
      TxOut(Token(2), Some(construct_address(2))),
      TxOut(Token(1), None),
      TxOut(Receipt(1, Some(TxHash(1)), None), Some(construct_address(2))),
      TxOut(Receipt(1, Some(TxHash(2)), None), Some(construct_address(2))),
      TxOut(Receipt(1, None, None), Some(construct_address(2))),
      TxOut(Receipt(1, Some(TxHash(1)), Some(HexLit(0))), Some(construct_address(2))) }

Transactions ==
    { [inputs |-> ins, outputs |-> outs] :
        ins \in UNION {[1..n -> TxIns] : n \in 0..MaxIns},
        outs \in UNION {[1..n -> TxOuts] : n \in 0..MaxOuts} }

InitTx ==
    /\ tx \in Transactions
    /\ utxo \in UtxoSets
    /\ Idle
    /\ script = <<>> /\ outpoint_hash = None /\ tx_out_pub_key = None
    /\ call = None /\ new_asset = None /\ druid = None /\ batch = None

TxIsValid ==
    /\ phase = "ready"
    /\ phase' = "done"
    /\ result' = tx_is_valid(tx, utxo)
    /\ UNCHANGED <<script, idx, main_stack, alt_stack, condition_stack,
                   test_for_return, executed, breached, outpoint_hash,
                   tx_out_pub_key, tx, utxo, call,
                   new_asset, druid, batch>>

NextTx == TxIsValid

SpecTx == InitTx /\ [][NextTx]_vars

(***************************************************************************)
(* Properties of Script::is_valid and Script::interpret                    *)
(***************************************************************************)
CountTag(s, t) == Cardinality({i \in DOMAIN s : s[i].tag = t})

RECURSIVE PayloadSum(_, _)
PayloadSum(s, I) ==
    IF I = {} THEN 0
    ELSE LET i == CHOOSE j \in I : TRUE
         IN  s[i].v.len + PayloadSum(s, I \ {i})

ByteLength(s) ==
    CountTag(s, "Op") + 64 * CountTag(s, "Signature") + 32 * CountTag(s, "PubKey")
    + 8 * CountTag(s, "Num")
    + PayloadSum(s, {i \in DOMAIN s : s[i].tag \in {"PubKeyHash", "Bytes"}})

WithinLimits(s) == ByteLength(s) <= 10000 /\ CountTag(s, "Op") <= 201

\* every entry of the script was executed and none failed
RanToEnd == phase = "done" /\ idx = Len(script) + 1

\* C1: is_valid is true exactly when the byte length is at most 10000 and
\* the number of Op entries at most 201; interpret of a script on which
\* is_valid is false returns false without executing any entry (the state
\* that follows the call of is_valid is already the final one).
C1_IsValidExactlyWithinLimits ==
    (phase # "ready" /\ executed = 0 /\ idx = 1)
        => /\ Script_is_valid(script) <=> WithinLimits(script)
           /\ ~WithinLimits(script) => (phase = "done" /\ result = "false")

C1_Witness ==
    /\ phase = "done" /\ result = "false" /\ executed = 0
    /\ ByteLength(script) = 10001

\* C2: after each executed entry the run continues only if
\* |main_stack| + |alt_stack| <= 1000; a run in which the combined size
\* exceeded 1000 after some entry has returned false, so a run that returns
\* true never exceeded it.  1000 data pushes pass, 1001 fail.
C2_StackBound ==
    /\ phase = "running" => Len(main_stack) + Len(alt_stack) <= 1000
    /\ breached => (phase = "done" /\ result = "false")
    /\ (phase = "done" /\ script = [i \in 1..1000 |-> Num(1)]) => result = "true"
    /\ (phase = "done" /\ script = [i \in 1..1001 |-> Num(1)]) => result = "false"

C2_Witness ==
    /\ breached /\ result = "false"
    /\ Len(main_stack) = 1000 /\ Len(alt_stack) = 1

\* C3: for a valid non-empty script whose entries all execute,
\* interpret returns true iff the main stack is non-empty and its top is not
\* Num(0).
C3_TrueIffTopExistsAndNonZero ==
    (RanToEnd /\ script # <<>>)
        => (result = "true"
              <=> (main_stack # <<>> /\ main_stack[Len(main_stack)] # Num(0)))

\* what the final expression of interpret computes instead: for a valid
\* non-empty script whose entries all execute, true iff the main stack is
\* empty or its top is not Num(0)
C3_TrueIffTopNotZero ==
    (RanToEnd /\ script # <<>>)
        => (result = "true"
              <=> (main_stack = <<>> \/ main_stack[Len(main_stack)] # Num(0)))

C3_Witness ==
    RanToEnd /\ script # <<>> /\ main_stack = <<>> /\ result = "true"

\* C4: interpret of the empty script returns true.
C4_EmptyScriptTrue == (phase = "done" /\ script = <<>>) => result = "true"

C4_Witness == phase = "done" /\ script = <<>> /\ result = "true"

\* C10: for [c, OP_IF, A, OP_ELSE, B, OP_ENDIF] with c in {OP_0, OP_1} and
\* A, B constant pushes, the verdict is that of A when c = OP_1 and that of
\* B when c = OP_0, mirrored for OP_NOTIF.
C10_ConditionalVerdict ==
    (phase = "done" /\ Len(script) = 6
        /\ script[1] \in {Op("OP_0"), Op("OP_1")}
        /\ script[2] \in {Op("OP_IF"), Op("OP_NOTIF")}
        /\ script[3].tag = "Op" /\ script[3].v \in DOMAIN OpConstValue
        /\ script[4] = Op("OP_ELSE")
        /\ script[5].tag = "Op" /\ script[5].v \in DOMAIN OpConstValue
        /\ script[6] = Op("OP_ENDIF"))
    => LET takeA == (script[1] = Op("OP_1")) <=> (script[2] = Op("OP_IF"))
           chosen == IF takeA THEN script[3] ELSE script[5]
       IN  result = Verdict(chosen # Op("OP_0"))

\* the conditional opened at position i of s has no OP_ENDIF of its own
OpenAt(s, i) ==
    /\ s[i].tag = "Op" /\ s[i].v \in {"OP_IF", "OP_NOTIF"}
    /\ \A j \in (i + 1)..Len(s) :
          Cardinality({k \in (i + 1)..j : s[k] = Op("OP_ENDIF")})
             <= Cardinality({k \in (i + 1)..j :
                               s[k].tag = "Op" /\ s[k].v \in {"OP_IF", "OP_NOTIF"}})

\* the condition stack would be non-empty at the end of s
Unbalanced(s) == \E i \in DOMAIN s : OpenAt(s, i)

\* C11: interpret returns false for every script that ends with an OP_IF or
\* OP_NOTIF that no OP_ENDIF closes, such as [OP_1, OP_IF, OP_1] and
\* [OP_1, OP_IF, OP_1, OP_ELSE, OP_3].
C11_UnbalancedConditionalsFalse ==
    (phase = "done" /\ Unbalanced(script)) => result = "false"

C11_Witness ==
    /\ phase = "done" /\ result = "false"
    /\ script = <<Op("OP_1"), Op("OP_IF"), Op("OP_1"), Op("OP_ELSE"), Op("OP_3")>>
    /\ Unbalanced(script)

\* the handler or push of the entry about to be executed returns false
EntryFails ==
    /\ phase = "running" /\ idx <= Len(script)
    /\ ~ExecEntry(script[idx],
                  [ok |-> TRUE, main |-> main_stack, alt |-> alt_stack]).ok

\* C12: if the handler (or data push) of the entry at position i returns
\* false, interpret returns false at that point, and no entry after i is
\* executed or changes the stacks.
C12_FailureEndsRun ==
    [][ /\ EntryFails => (phase' = "done" /\ result' = "false" /\ idx' = idx)
        /\ phase = "done" => UNCHANGED <<main_stack, alt_stack, executed, result>>
      ]_vars

C12_Witness ==
    /\ phase = "done" /\ result = "false" /\ ~breached
    /\ executed = idx /\ idx < Len(script)
    /\ script[idx] = Op("OP_VERIFY")

\* C13: interpret dispatches every opcode of the catalogue to its handler:
\* for each of OP_CAT, OP_SUBSTR, OP_LEFT, OP_RIGHT, OP_INVERT, OP_AND, OP_OR,
\* OP_XOR, OP_2MUL, OP_2DIV, OP_MUL, OP_DIV, OP_MOD, OP_LSHIFT and OP_RSHIFT,
\* a script applying it to well-typed operands in range that leaves a
\* non-zero top returns true.
C13_CatalogueDispatched ==
    (phase = "done" /\ script \in CatalogueScripts) => result = "true"

(***************************************************************************)
(* Properties of tx_has_valid_p2pkh_sig                                    *)
(***************************************************************************)
P2pkhShape(s) ==
    /\ Len(s) = 8
    /\ [i \in 1..8 |-> s[i].tag]
         = <<"Bytes", "Signature", "PubKey", "Op", "Op", "PubKeyHash", "Op", "Op">>
    /\ <<s[4].v, s[7].v, s[8].v>> = <<"OP_DUP", "OP_EQUALVERIFY", "OP_CHECKSIG">>
    /\ s[5].v \in {"OP_HASH256", "OP_HASH256_V0", "OP_HASH256_TEMP"}

\* C8: tx_has_valid_p2pkh_sig(script, outpoint_hash, addr) is true exactly
\* when the script is the eight entries of the P2PKH template with nothing
\* after them, its Bytes equals outpoint_hash, its PubKeyHash equals addr and
\* interpret(script) is true.
C8_P2pkhSigExactly ==
    phase = "done"
        => (result = "true"
              <=> /\ P2pkhShape(script)
                  /\ script[1].v = outpoint_hash
                  /\ script[6].v = tx_out_pub_key
                  /\ interpret(script))

C8_Witness ==
    /\ phase = "done" /\ result = "false"
    /\ Len(script) = 9 /\ P2pkhShape(SubSeq(script, 1, 8))
    /\ script[1].v = outpoint_hash /\ script[6].v = tx_out_pub_key
    /\ interpret(script)

\* C9: for a script built by pay2pkh from (msg, sig, pk, version),
\* tx_has_valid_p2pkh_sig(script, msg, address_for(pk, version)) is true
\* when sig verifies msg under pk, and replacing pk, sig, msg or the address
\* by a different value makes it false.
C9_Pay2pkhRoundTrip ==
    phase = "done"
        => \A m \in Msgs, sg \in Sigs, pk \in Keys, v \in Versions :
              script = pay2pkh(m, sg, pk, v)
                 => (result = "true"
                       <=> /\ verify_detached(sg, m, pk)
                           /\ outpoint_hash = m
                           /\ tx_out_pub_key = construct_address_for(pk, v))

C9_Witness ==
    /\ phase = "done" /\ result = "true"
    /\ script = pay2pkh(outpoint_hash, sign_detached(outpoint_hash, 2), 2,
                        Some(NETWORK_VERSION_V0))
    /\ tx_out_pub_key = construct_address_v0(2)

(***************************************************************************)
(* Properties of tx_is_valid                                               *)
(***************************************************************************)
RECURSIVE SeqSum(_)
SeqSum(q) == IF q = <<>> THEN 0 ELSE Head(q) + SeqSum(Tail(q))

\* the output that input i refers to (the lookup has found it)
SpentOut(i) == utxo[tx.inputs[i].previous_out[1]][1]

\* the DRS a spent Receipt counts for: its own, or the transaction that
\* created it when it carries none
SpentDrs(i) ==
    IF SpentOut(i).value.drs_tx_hash # None
    THEN SpentOut(i).value.drs_tx_hash[1]
    ELSE tx.inputs[i].previous_out[1].t_hash

TokensIn ==
    SeqSum([i \in DOMAIN tx.inputs |->
              IF SpentOut(i).value.kind = "Token" THEN SpentOut(i).value.amount ELSE 0])
TokensOut ==
    SeqSum([i \in DOMAIN tx.outputs |->
              IF tx.outputs[i].value.kind = "Token"
              THEN tx.outputs[i].value.amount ELSE 0])
ReceiptsIn(d) ==
    SeqSum([i \in DOMAIN tx.inputs |->
              IF SpentOut(i).value.kind = "Receipt" /\ SpentDrs(i) = d
              THEN SpentOut(i).value.amount ELSE 0])
ReceiptsOut(d) ==
    SeqSum([i \in DOMAIN tx.outputs |->
              IF tx.outputs[i].value.kind = "Receipt"
                 /\ tx.outputs[i].value.drs_tx_hash = Some(d)
              THEN tx.outputs[i].value.amount ELSE 0])

\* C5: whenever tx_is_valid returns true, the Token amounts of the outputs
\* referenced by the inputs and of the transaction's outputs have the same
\* sum, and for every drs_tx_hash the Receipt count over the inputs equals
\* the Receipt count over the outputs.
C5_AssetConservation ==
    (phase = "done" /\ result = "true")
        => /\ TokensIn = TokensOut
           /\ \A d \in {TxHash(1), TxHash(2)} : ReceiptsIn(d) = ReceiptsOut(d)

C5_Witness ==
    /\ phase = "done" /\ result = "true"
    /\ TokensIn = 1 /\ ReceiptsIn(TxHash(1)) = 1 /\ ReceiptsIn(TxHash(2)) = 0

Authorised(i) ==
    LET tx_in == tx.inputs[i]
    IN  /\ tx_in.previous_out # None
        /\ utxo[tx_in.previous_out[1]] # None
        /\ SpentOut(i).script_public_key # None
        /\ \/ tx_has_valid_p2pkh_sig(tx_in.script_signature,
                    construct_tx_in_signable_hash(tx_in.previous_out[1]),
                    SpentOut(i).script_public_key[1])
           \/ tx_has_valid_p2sh_script(tx_in.script_signature,
                    SpentOut(i).script_public_key[1])

\* C6: whenever tx_is_valid returns true, every input's previous_out was
\* found by the UTXO lookup, the found output carries an address and the
\* input's script satisfies tx_has_valid_p2pkh_sig or
\* tx_has_valid_p2sh_script against it; one input failing any of these makes
\* the result false.
C6_EveryInputAuthorised ==
    phase = "done"
        => /\ result = "true" => \A i \in DOMAIN tx.inputs : Authorised(i)
           /\ (\E i \in DOMAIN tx.inputs : ~Authorised(i)) => result = "false"

\* C7: tx_is_valid returns false for any transaction with a Receipt output
\* whose drs_tx_hash is absent or whose metadata is present, whatever its
\* inputs and the UTXO lookup.
C7_MalformedReceiptOutputRejected ==
    ( /\ phase = "done"
      /\ \E i \in DOMAIN tx.outputs :
            /\ tx.outputs[i].value.kind = "Receipt"
            /\ \/ tx.outputs[i].value.drs_tx_hash = None
               \/ tx.outputs[i].value.metadata # None )
        => result = "false"

C7_Witness ==
    /\ phase = "done" /\ result = "false"
    /\ \E i \in DOMAIN tx.outputs : tx.outputs[i].value.metadata # None
    /\ \E i \in DOMAIN tx.inputs : tx.inputs[i].previous_out = None

(***************************************************************************)
(* The script templates: a constructor call, then interpret of its script  *)
(***************************************************************************)
\* most keys and signatures of an enumerated multisig call
MaxMulti == 2

\* a constructor call; the arguments a constructor does not take are fixed
TemplateCall(name, m, n, check_data, signatures, pub_keys, block_number, version) ==
    [name |-> name, m |-> m, n |-> n, check_data |-> check_data,
     signatures |-> signatures, pub_keys |-> pub_keys,
     block_number |-> block_number, address_version |-> version]

\* signatures of the check data by every key, and one of another message
TemplateSigs == {sign_detached(HexLit(0), k) : k \in Keys} \cup {sign_detached(HexLit(1), 1)}
SigSeqs == UNION {[1..k -> TemplateSigs] : k \in 0..MaxMulti}
KeySeqs == UNION {[1..k -> Keys] : k \in 0..MaxMulti}

\* pub_keys of MAX_PUB_KEYS_PER_MULTISIG keys and of one more
ManyKeys(len) == [i \in 1..len |-> IF i = 1 THEN 1 ELSE 2]

SingleSigCalls ==
    { TemplateCall(name, 0, 0, HexLit(0), <<sg>>, <<pk>>, b, v) :
        name \in {"new_create_asset", "pay2pkh", "member_multisig"},
        sg \in TemplateSigs, pk \in Keys, b \in {0, 1}, v \in Versions }

\* the calls of the multisig constructors `names`
MultisigCalls(names) ==
    { TemplateCall(name, m, n, HexLit(0), sgs, pks, 0, None) :
        name \in names,
        m \in 0..(MaxMulti + 1), n \in 0..(MaxMulti + 1),
        sgs \in SigSeqs, pks \in KeySeqs }
    \cup
    { TemplateCall(name, m, len, HexLit(0),
                   [i \in 1..m |-> sign_detached(HexLit(0), i)], ManyKeys(len), 0, None) :
        name \in names, m \in 0..2,
        len \in {MAX_PUB_KEYS_PER_MULTISIG, MAX_PUB_KEYS_PER_MULTISIG + 1} }

\* the calls of the constructors without a public key, of those with one
\* and of the multisig constructors `names`
TemplateCalls(names) ==
    { TemplateCall("new_for_coinbase", 0, 0, HexLit(0), <<>>, <<>>, b, None) :
        b \in 0..2 }
    \cup SingleSigCalls
    \cup { TemplateCall("multisig_unlock", 0, 0, HexLit(0), sgs, <<>>, 0, None) :
             sgs \in SigSeqs }
    \cup MultisigCalls(names)

\* the script the constructor returns
Build(c) ==
    CASE c.name = "new_for_coinbase" -> new_for_coinbase(c.block_number)
      [] c.name = "new_create_asset" ->
            new_create_asset(c.block_number, c.check_data, c.signatures[1],
                             c.pub_keys[1])
      [] c.name = "pay2pkh" ->
            pay2pkh(c.check_data, c.signatures[1], c.pub_keys[1], c.address_version)
      [] c.name = "member_multisig" ->
            member_multisig(c.check_data, c.pub_keys[1], c.signatures[1])
      [] c.name = "multisig_lock" ->
            multisig_lock(c.m, c.n, c.check_data, c.pub_keys)
      [] c.name = "multisig_unlock" -> multisig_unlock(c.check_data, c.signatures)
      [] c.name = "multisig_validation" ->
            multisig_validation(c.m, c.n, c.check_data, c.signatures, c.pub_keys)

InitTemplate ==
    /\ call \in TemplateCalls({"multisig_lock", "multisig_validation"})
    /\ script = <<>> /\ phase = "build"
    /\ idx = 1 /\ main_stack = <<>> /\ alt_stack = <<>>
    /\ condition_stack = ConditionStack_new /\ test_for_return = TRUE
    /\ result = "none" /\ executed = 0 /\ breached = FALSE
    /\ outpoint_hash = None /\ tx_out_pub_key = None /\ tx = None /\ utxo = None
    /\ new_asset = None /\ druid = None /\ batch = None

\* the constructor runs; its script is then handed to interpret
BuildTemplate ==
    /\ phase = "build"
    /\ script' = Build(call)
    /\ phase' = "ready"
    /\ UNCHANGED <<idx, main_stack, alt_stack, condition_stack, test_for_return,
                   result, executed, breached, outpoint_hash, tx_out_pub_key,
                   tx, utxo, call,
                   new_asset, druid, batch>>

NextTemplate == BuildTemplate \/ InterpretBegin \/ InterpretStep \/ InterpretEnd

SpecTemplate == InitTemplate /\ [][NextTemplate]_vars

(***************************************************************************)
(* Properties of the script templates                                      *)
(***************************************************************************)
\* the signatures verify the check data under public keys of the call, each
\* signature under a key of its own
SignedByListedKeys(c) ==
    \E f \in [DOMAIN c.signatures -> DOMAIN c.pub_keys] :
        /\ \A i, j \in DOMAIN f : f[i] = f[j] => i = j
        /\ \A i \in DOMAIN f :
              verify_detached(c.signatures[i], c.check_data, c.pub_keys[f[i]])

\* arguments the constructor accepts, with signatures that verify
ValidArguments(c) ==
    CASE c.name \in {"new_for_coinbase", "multisig_unlock"} -> TRUE
      [] c.name \in {"new_create_asset", "pay2pkh", "member_multisig"} ->
            verify_detached(c.signatures[1], c.check_data, c.pub_keys[1])
      [] c.name = "multisig_lock" -> c.m <= c.n /\ c.n <= Len(c.pub_keys)
      [] c.name = "multisig_validation" ->
            /\ c.m <= c.n /\ c.n <= Len(c.pub_keys)
            /\ Len(c.signatures) = c.m /\ SignedByListedKeys(c)

\* the valid arguments whose script carries all that OP_CHECKMULTISIG pops
\* and leaves a non-zero top
SelfSufficient(c) ==
    /\ ValidArguments(c)
    /\ c.name = "new_for_coinbase" => c.block_number # 0
    /\ c.name = "multisig_lock" => c.m = 0
    /\ c.name \in {"multisig_lock", "multisig_validation"} =>
          c.n = Len(c.pub_keys) /\ c.n <= MAX_PUB_KEYS_PER_MULTISIG

IsMultisigCall(c) == c.name \in {"multisig_lock", "multisig_validation"}

\* C15: a script returned by a template constructor that rejected its
\* arguments (multisig_lock or multisig_validation called with m > n or with
\* n greater than the number of public keys) fails validation: interpret of
\* it returns false.
C15_RejectedTemplateFails ==
    ( /\ phase = "done" /\ IsMultisigCall(call)
      /\ (call.m > call.n \/ call.n > Len(call.pub_keys)) )
        => result = "false"

\* C16: multisig_lock and multisig_validation build their script exactly
\* when m <= n and n <= number of public keys supplied; for every other
\* (m, n, pub_keys) they return the empty script.
C16_MultisigBuiltExactlyWhenAccepted ==
    (phase # "build" /\ IsMultisigCall(call))
        => IF call.m <= call.n /\ call.n <= Len(call.pub_keys)
           THEN /\ Len(script) >= 4
                /\ script[1] = Bytes(call.check_data)
                /\ script[Len(script) - 1] = Num(call.n)
                /\ script[Len(script)] = Op("OP_CHECKMULTISIG")
           ELSE script = <<>>

C16_Witness ==
    /\ phase = "ready" /\ call.name = "multisig_validation"
    /\ call.m > call.n /\ call.n <= Len(call.pub_keys) /\ call.m <= Len(call.pub_keys)
    /\ script = <<>>

(***************************************************************************)
(* tx_has_valid_create_script (script_utils.rs)                            *)
(***************************************************************************)
\* the network's limit on Receipt metadata, scaled down
MAX_METADATA_BYTES == 4

construct_tx_in_signable_asset_hash(a) == Str(<<"asset_hash", a>>, 64)

\* receipt_has_valid_size
receipt_has_valid_size(receipt) ==
    IF receipt.metadata # None
    THEN receipt.metadata[1].len <= MAX_METADATA_BYTES
    ELSE TRUE

\* faulty variant: the tuple pattern lacks its final None
CreatePattern_open(s) ==
    /\ IsOp(it_next(s, 1), {"OP_CREATE"})
    /\ IsEntry(it_next(s, 2), "Num")
    /\ IsOp(it_next(s, 3), {"OP_DROP"})
    /\ IsEntry(it_next(s, 4), "Bytes")
    /\ IsEntry(it_next(s, 5), "Signature")
    /\ IsEntry(it_next(s, 6), "PubKey")
    /\ IsOp(it_next(s, 7), {"OP_CHECKSIG"})

\* the `if let (..) = (it.next(), ..)` of tx_has_valid_create_script
CreatePattern(s) ==
    /\ IsOp(it_next(s, 1), {"OP_CREATE"})
    /\ IsEntry(it_next(s, 2), "Num")
    /\ IsOp(it_next(s, 3), {"OP_DROP"})
    /\ IsEntry(it_next(s, 4), "Bytes")
    /\ IsEntry(it_next(s, 5), "Signature")
    /\ IsEntry(it_next(s, 6), "PubKey")
    /\ IsOp(it_next(s, 7), {"OP_CHECKSIG"})
    /\ it_next(s, 8) = None

tx_has_valid_create_script(s, a) ==
    LET asset_hash == construct_tx_in_signable_asset_hash(a)
    IN  IF a.kind = "Receipt" /\ ~receipt_has_valid_size(a) THEN FALSE
        ELSE IF CreatePattern(s)
        THEN LET b == s[4].v
             IN  IF b = asset_hash /\ interpret(s) THEN TRUE ELSE FALSE
        ELSE FALSE

Metadata(len) == Some(Str(<<"metadata">>, len))

Assets ==
    { Token(1), Receipt(1, None, None),
      Receipt(1, None, Metadata(MAX_METADATA_BYTES)),
      Receipt(1, None, Metadata(MAX_METADATA_BYTES + 1)) }

CreateScripts ==
    { new_create_asset(b, construct_tx_in_signable_asset_hash(a),
                       sign_detached(construct_tx_in_signable_asset_hash(a), k), pk) :
        b \in {0, 1}, a \in Assets, k \in Keys, pk \in Keys }

CreateReplacements ==
    { Op("OP_NOP"), Op("OP_CREATE"), Op("OP_DROP"), Op("OP_CHECKSIG"),
      Bytes(HexLit(1)), PubKeyHash(construct_address(1)), PubKey(1), Num(1) }

\* prefixes, one-entry extensions and one-entry replacements of create scripts
CreateVariants ==
    UNION { {SubSeq(b, 1, n) : n \in 0..Len(b)}
              \cup {b \o <<e>> : e \in {Op("OP_1"), Op("OP_NOP"), Num(0)}}
              \cup {[b EXCEPT ![k] = e] : k \in DOMAIN b, e \in CreateReplacements}
            : b \in {c \in CreateScripts : c[2] = Num(0) /\ c[6] = PubKey(1)} }

InitCreate ==
    /\ script \in CreateScripts \cup CreateVariants
    /\ new_asset \in Assets
    /\ Idle
    /\ outpoint_hash = None /\ tx_out_pub_key = None /\ tx = None /\ utxo = None
    /\ call = None /\ druid = None /\ batch = None

TxHasValidCreateScript ==
    /\ phase = "ready"
    /\ phase' = "done"
    /\ result' = Verdict(tx_has_valid_create_script(script, new_asset))
    /\ UNCHANGED <<script, idx, main_stack, alt_stack, condition_stack,
                   test_for_return, executed, breached, outpoint_hash,
                   tx_out_pub_key, tx, utxo, call, new_asset, druid, batch>>

NextCreate == TxHasValidCreateScript

SpecCreate == InitCreate /\ [][NextCreate]_vars

CreateShape(s) ==
    /\ Len(s) = 7
    /\ [i \in 1..7 |-> s[i].tag]
         = <<"Op", "Num", "Op", "Bytes", "Signature", "PubKey", "Op">>
    /\ <<s[1].v, s[3].v, s[7].v>> = <<"OP_CREATE", "OP_DROP", "OP_CHECKSIG">>

\* C17: tx_has_valid_create_script(script, asset) is true exactly when the
\* script is the seven entries [OP_CREATE, Num, OP_DROP, Bytes b, Signature,
\* PubKey, OP_CHECKSIG] with nothing after them, b is the signable asset
\* hash of asset, interpret(script) is true and, for a Receipt with
\* metadata, the metadata is at most MAX_METADATA_BYTES long.
C17_CreateScriptExactly ==
    phase = "done"
        => (result = "true"
              <=> /\ CreateShape(script)
                  /\ script[4].v = construct_tx_in_signable_asset_hash(new_asset)
                  /\ interpret(script)
                  /\ (new_asset.kind = "Receipt" /\ new_asset.metadata # None)
                        => new_asset.metadata[1].len <= MAX_METADATA_BYTES)

C17_Witness ==
    /\ phase = "done" /\ result = "false"
    /\ Len(script) = 8 /\ CreateShape(SubSeq(script, 1, 7))
    /\ script[4].v = construct_tx_in_signable_asset_hash(new_asset)
    /\ interpret(script)

(***************************************************************************)
(* tx_has_valid_p2sh_script applied to bounded inputs                      *)
(***************************************************************************)
P2shScripts ==
    {sc \in ShortScripts : Len(sc) <= 2}
        \cup { multisig_validation(1, 1, HexLit(0), <<sg>>, <<1>>) : sg \in TemplateSigs }

P2shAddresses ==
    { construct_p2sh_address(sc) :
        sc \in { <<>>, <<Op("OP_0")>>, <<Op("OP_1")>>, <<Op("OP_1"), Op("OP_DROP")>>,
                 multisig_validation(1, 1, HexLit(0), <<sign_detached(HexLit(0), 1)>>, <<1>>) } }
        \cup { construct_address(1) }

InitP2sh ==
    /\ script \in P2shScripts
    /\ tx_out_pub_key \in P2shAddresses
    /\ Idle
    /\ outpoint_hash = None /\ tx = None /\ utxo = None
    /\ call = None /\ new_asset = None /\ druid = None /\ batch = None

TxHasValidP2shScript ==
    /\ phase = "ready"
    /\ phase' = "done"
    /\ result' = Verdict(tx_has_valid_p2sh_script(script, tx_out_pub_key))
    /\ UNCHANGED <<script, idx, main_stack, alt_stack, condition_stack,
                   test_for_return, executed, breached, outpoint_hash,
                   tx_out_pub_key, tx, utxo, call, new_asset, druid, batch>>

NextP2sh == TxHasValidP2shScript

SpecP2sh == InitP2sh /\ [][NextP2sh]_vars

\* C18: tx_has_valid_p2sh_script(script, address) is true exactly when the
\* P2SH address derived from the script equals address and
\* interpret(script) is true.
C18_P2shExactly ==
    phase = "done"
        => (result = "true"
              <=> /\ \E sc \in P2shScripts :
                        sc = script /\ tx_out_pub_key = construct_p2sh_address(sc)
                  /\ interpret(script))

C18_Witness ==
    /\ phase = "done" /\ result = "false"
    /\ interpret(script)
    /\ tx_out_pub_key = construct_p2sh_address(<<Op("OP_1")>>)
    /\ script = <<Op("OP_1"), Op("OP_1")>>

(***************************************************************************)
(* druid_expectations_are_met (druid_utils.rs)                             *)
(***************************************************************************)
\* hex::encode(Sha3_256::digest(&serialize(&tx.inputs).unwrap()))
InsHash(inputs) == Str(<<"sha3", inputs>>, 64)

DruidExpectation(from, to, a) == [from |-> from, to |-> to, asset |-> a]
\* DdeValues { druid, participants, expectations }
DruidInfo(d, participants, expectations) ==
    [druid |-> d, participants |-> participants, expectations |-> expectations]
DruidTx(inputs, outputs, druid_info) ==
    [inputs |-> inputs, outputs |-> outputs, druid_info |-> druid_info]

\* the (from, to, asset) triples of the outputs of t that carry an address
RealizedBy(t) ==
    { <<InsHash(t.inputs), t.outputs[i].script_public_key[1], t.outputs[i].value>> :
        i \in {j \in DOMAIN t.outputs : t.outputs[j].script_public_key # None} }

\* faulty variant: the outputs are collected whatever the druid of the transaction
druid_step_any_druid(acc, t, d) ==
    IF t.druid_info # None
    THEN LET druid_info == t.druid_info[1]
         IN  [expects |->
                 IF druid_info.druid = d
                 THEN acc.expects
                        \cup {druid_info.expectations[i] : i \in DOMAIN druid_info.expectations}
                 ELSE acc.expects,
              expectation_collect |-> acc.expectation_collect \cup RealizedBy(t)]
    ELSE acc

\* faulty variant: only the outputs of the latest matching transaction are kept
druid_step_latest_outputs(acc, t, d) ==
    IF t.druid_info # None
    THEN LET druid_info == t.druid_info[1]
         IN  IF druid_info.druid = d
             THEN [expects |->
                      acc.expects
                        \cup {druid_info.expectations[i] : i \in DOMAIN druid_info.expectations},
                   expectation_collect |-> RealizedBy(t)]
             ELSE acc
    ELSE acc

\* faulty variant: the expectations are collected whatever the druid of the transaction
druid_step_any_expectations(acc, t, d) ==
    IF t.druid_info # None
    THEN LET druid_info == t.druid_info[1]
         IN  [expects |->
                 acc.expects
                   \cup {druid_info.expectations[i] : i \in DOMAIN druid_info.expectations},
              expectation_collect |->
                 IF druid_info.druid = d
                 THEN acc.expectation_collect \cup RealizedBy(t)
                 ELSE acc.expectation_collect]
    ELSE acc

\* faulty variant: the outputs of a transaction with fewer than two
\* participants are not collected
druid_step_counts_participants(acc, t, d) ==
    IF t.druid_info # None
    THEN LET druid_info == t.druid_info[1]
         IN  IF druid_info.druid = d
             THEN [expects |->
                      acc.expects
                        \cup {druid_info.expectations[i] : i \in DOMAIN druid_info.expectations},
                   expectation_collect |->
                      IF druid_info.participants < 2 THEN acc.expectation_collect
                      ELSE acc.expectation_collect \cup RealizedBy(t)]
             ELSE acc
    ELSE acc

\* the body of `for tx in transactions`
druid_step(acc, t, d) ==
    IF t.druid_info # None
    THEN LET druid_info == t.druid_info[1]
         IN  IF druid_info.druid = d
             THEN [expects |->
                      acc.expects
                        \cup {druid_info.expectations[i] : i \in DOMAIN druid_info.expectations},
                   expectation_collect |-> acc.expectation_collect \cup RealizedBy(t)]
             ELSE acc
    ELSE acc

RECURSIVE druid_loop(_, _, _, _)
druid_loop(transactions, i, acc, d) ==
    IF i > Len(transactions) THEN acc
    ELSE druid_loop(transactions, i + 1, druid_step(acc, transactions[i], d), d)

druid_expectations_are_met(d, transactions) ==
    LET acc == druid_loop(transactions, 1,
                          [expects |-> {}, expectation_collect |-> {}], d)
        expectation_met == acc.expectation_collect
    IN  \A e \in acc.expects : <<e.from, e.to, e.asset>> \in expectation_met

\* longest batch of transactions
MaxBatch == 2

InsA == <<>>
InsB == <<TxIn(None, <<>>)>>
Alice == construct_address(1)
Bob == construct_address(2)

DruidExpectations ==
    { DruidExpectation(InsHash(InsA), Bob, Token(1)),
      DruidExpectation(InsHash(InsB), Bob, Token(1)),
      DruidExpectation(InsHash(InsA), Alice, Token(1)) }

DruidTxs ==
    { DruidTx(ins, outs, info) :
        ins \in {InsA, InsB},
        outs \in { <<>>, <<TxOut(Token(1), Some(Bob))>>, <<TxOut(Token(2), Some(Bob))>>,
                   <<TxOut(Token(1), None)>>,
                   <<TxOut(Token(1), Some(Alice)), TxOut(Token(1), Some(Bob))>> },
        info \in {None}
                  \cup {Some(DruidInfo("VALUE", 2, es)) :
                          es \in {<<>>} \cup {<<e>> : e \in DruidExpectations}}
                  \cup {Some(DruidInfo("OTHER", 2,
                                        <<DruidExpectation(InsHash(InsA), Bob, Token(1))>>))} }

InitDruid ==
    /\ druid = "VALUE"
    /\ batch \in UNION {[1..k -> DruidTxs] : k \in 0..MaxBatch}
    /\ Idle
    /\ script = <<>> /\ outpoint_hash = None /\ tx_out_pub_key = None
    /\ tx = None /\ utxo = None /\ call = None /\ new_asset = None

DruidExpectationsAreMet ==
    /\ phase = "ready"
    /\ phase' = "done"
    /\ result' = Verdict(druid_expectations_are_met(druid, batch))
    /\ UNCHANGED <<script, idx, main_stack, alt_stack, condition_stack,
                   test_for_return, executed, breached, outpoint_hash,
                   tx_out_pub_key, tx, utxo, call, new_asset, druid, batch>>

NextDruid == DruidExpectationsAreMet

SpecDruid == InitDruid /\ [][NextDruid]_vars

(***************************************************************************)
(* Properties of druid_expectations_are_met                                *)
(***************************************************************************)
\* transaction t of the batch carries druid_info for the druid asked about
Matching(t) == t.druid_info # None /\ t.druid_info[1].druid = druid

\* expectation e is realized by an address-carrying output of a matching
\* transaction of the batch
Realized(e) ==
    \E j \in DOMAIN batch :
        /\ Matching(batch[j])
        /\ \E o \in DOMAIN batch[j].outputs :
              /\ batch[j].outputs[o].script_public_key # None
              /\ e.from = InsHash(batch[j].inputs)
              /\ e.to = batch[j].outputs[o].script_public_key[1]
              /\ e.asset = batch[j].outputs[o].value

\* C19: druid_expectations_are_met(druid, txs) is true exactly when every
\* expectation declared by a transaction of the batch whose druid equals
\* druid appears among the realized triples (hash of the inputs, output
\* address, output value) of the address-carrying outputs of the batch's
\* druid-matching transactions.
C19_ExpectationsMetExactly ==
    phase = "done"
        => (result = "true"
              <=> \A i \in DOMAIN batch :
                     Matching(batch[i])
                        => \A k \in DOMAIN batch[i].druid_info[1].expectations :
                              Realized(batch[i].druid_info[1].expectations[k]))

C19_Witness ==
    /\ phase = "done" /\ result = "false" /\ Len(batch) = 2
    /\ Matching(batch[1]) /\ ~Matching(batch[2]) /\ batch[2].druid_info # None
    /\ batch[1].outputs = <<>>
    /\ batch[1].druid_info[1].expectations
          = <<DruidExpectation(InsHash(batch[2].inputs), Bob, Token(1))>>
    /\ batch[2].outputs = <<TxOut(Token(1), Some(Bob))>>

BatchOrders(n) ==
    {p \in [1..n -> 1..n] : \A i, j \in 1..n : p[i] = p[j] => i = j}

\* C20: for every druid and every batch of transactions,
\* druid_expectations_are_met returns the same result for every permutation
\* of the batch.
C20_PermutationInvariant ==
    phase = "done"
        => \A p \in BatchOrders(Len(batch)) :
              Verdict(druid_expectations_are_met(
                          druid, [i \in 1..Len(batch) |-> batch[p[i]]])) = result

C20_Witness ==
    /\ phase = "done" /\ result = "true" /\ Len(batch) = 2
    /\ Matching(batch[1]) /\ Matching(batch[2])
    /\ batch[2].outputs = <<>> /\ batch[2].druid_info[1].expectations # <<>>
    /\ batch[1].druid_info[1].expectations = <<>>

(***************************************************************************)
(* The opcode handlers and Stack::push called on a prepared stack          *)
(***************************************************************************)
\* a call: the operation, its argument (the entry given to push, the
\* operands of a multisig check) and the stack it is called on
OpCall(name, args, main, alt) == [name |-> name, args |-> args, main |-> main, alt |-> alt]

ArithmeticOps == {"OP_1ADD", "OP_1SUB", "OP_2MUL", "OP_ADD", "OP_SUB", "OP_MUL"}

\* the handler of an arithmetic opcode
ArithmeticHandler(c, st) ==
    CASE c = "OP_1ADD" -> op_1add(st)
      [] c = "OP_1SUB" -> op_1sub(st)
      [] c = "OP_2MUL" -> op_2mul(st)
      [] c = "OP_ADD" -> op_add(st)
      [] c = "OP_SUB" -> op_sub(st)
      [] c = "OP_MUL" -> op_mul(st)

ArithmeticCalls ==
    { OpCall(c, None, main, <<>>) :
        c \in ArithmeticOps,
        main \in {<<>>, <<Bytes(HexLit(0))>>, <<Num(1), Bytes(HexLit(0))>>}
                 \cup {<<Num(a)>> : a \in 0..USIZE_MAX}
                 \cup {<<Num(a), Num(b)>> : a, b \in 0..USIZE_MAX} }

\* the stack the multisig tests prepare: msg, signatures, m, public keys, n
MultisigStack(a) ==
    <<Bytes(a.check_data)>> \o SignatureEntries(a.signatures) \o <<Num(a.m)>>
        \o PubKeyEntries(a.pub_keys) \o <<Num(a.n)>>

MultisigCheckCalls(keys) ==
    LET sigs == {sign_detached(HexLit(0), k) : k \in keys}
                    \cup {sign_detached(HexLit(1), 1)}
        \* m and n as many as the signatures and keys pushed, or one more
        fitting ==
            { [check_data |-> HexLit(0), signatures |-> sgs, m |-> Len(sgs) + dm,
               pub_keys |-> pks, n |-> Len(pks) + dn] :
                sgs \in UNION {[1..k -> sigs] : k \in 0..MaxMulti},
                pks \in UNION {[1..k -> keys] : k \in 0..(MaxMulti + 1)},
                dm \in {0, 1}, dn \in {0, 1} }
        many == { [check_data |-> HexLit(0), signatures |-> <<sign_detached(HexLit(1), 1)>>,
                   m |-> 1, pub_keys |-> ManyKeys(len), n |-> len] :
                    len \in {MAX_PUB_KEYS_PER_MULTISIG, MAX_PUB_KEYS_PER_MULTISIG + 1} }
    IN  { OpCall("OP_CHECKMULTISIG", a, MultisigStack(a), <<>>) : a \in fitting \cup many }

PushCalls ==
    { OpCall("push", e, main, alt) :
        e \in {Op("OP_1"), Num(0), PubKey(1), Signature(sign_detached(HexLit(0), 1))}
              \cup {Bytes(Str(<<"b">>, l)) : l \in {0, 519, 520, 521}}
              \cup {PubKeyHash(Str(<<"h">>, l)) : l \in {64, 520, 521}},
        main \in {<<>>, <<Num(1)>>, <<Num(1), Bytes(HexLit(0))>>},
        alt \in {<<>>, <<Num(2)>>} }

InitOps ==
    /\ call \in ArithmeticCalls \cup MultisigCheckCalls(1..3) \cup PushCalls
    /\ main_stack = call.main /\ alt_stack = call.alt
    /\ script = <<>> /\ phase = "ready" /\ idx = 1
    /\ condition_stack = ConditionStack_new /\ test_for_return = TRUE
    /\ result = "none" /\ executed = 0 /\ breached = FALSE
    /\ outpoint_hash = None /\ tx_out_pub_key = None /\ tx = None /\ utxo = None
    /\ new_asset = None /\ druid = None /\ batch = None

\* the call returns: the stack it leaves and the boolean it returns
Returned(r) ==
    /\ main_stack' = r.main /\ alt_stack' = r.alt
    /\ result' = Verdict(r.ok) /\ phase' = "done"
    /\ UNCHANGED <<script, idx, condition_stack, test_for_return, executed,
                   breached, outpoint_hash, tx_out_pub_key, tx, utxo, call,
                   new_asset, druid, batch>>

OpArithmetic ==
    /\ phase = "ready" /\ call.name \in ArithmeticOps
    /\ Returned(ArithmeticHandler(call.name,
                                  [ok |-> TRUE, main |-> main_stack, alt |-> alt_stack]))

OpCheckmultisig ==
    /\ phase = "ready" /\ call.name = "OP_CHECKMULTISIG"
    /\ Returned(op_checkmultisig([ok |-> TRUE, main |-> main_stack, alt |-> alt_stack]))

StackPush ==
    /\ phase = "ready" /\ call.name = "push"
    /\ Returned(Stack_push([ok |-> TRUE, main |-> main_stack, alt |-> alt_stack],
                           call.args))

NextOps == OpArithmetic \/ OpCheckmultisig \/ StackPush

SpecOps == InitOps /\ [][NextOps]_vars

(***************************************************************************)
(* Properties of the handlers                                              *)
(***************************************************************************)
\* f matches every signature of the operands a to a public key of its own
\* under which it verifies the message
MatchesDistinctKeys(a, f) ==
    /\ \A i, j \in DOMAIN a.signatures : f[i] = f[j] => i = j
    /\ \A i \in DOMAIN a.signatures :
          verify_detached(a.signatures[i], a.check_data, a.pub_keys[f[i]])

Matchable(a) ==
    \E f \in [DOMAIN a.signatures -> DOMAIN a.pub_keys] : MatchesDistinctKeys(a, f)

\* the operands are m signatures and n public keys, m <= n <= the key limit
WellFormed(a) ==
    /\ a.m = Len(a.signatures) /\ a.n = Len(a.pub_keys)
    /\ a.m <= a.n /\ a.n <= MAX_PUB_KEYS_PER_MULTISIG

CheckDone == phase = "done" /\ call.name = "OP_CHECKMULTISIG"

\* C21: for a valid m-of-n input in which each signature verifies the
\* message under a distinct listed public key, OP_CHECKMULTISIG leaves
\* Num(1), and so it does for every permutation of the signatures and every
\* permutation of the public keys.
C21_MultisigOrderIndependent ==
    (CheckDone /\ WellFormed(call.args) /\ Matchable(call.args))
        => /\ result = "true" /\ main_stack = <<Num(1)>>
           /\ \A p \in BatchOrders(Len(call.args.signatures)) :
              \A q \in BatchOrders(Len(call.args.pub_keys)) :
                 LET a == [call.args EXCEPT
                             !.signatures = [i \in DOMAIN p |-> call.args.signatures[p[i]]],
                             !.pub_keys = [i \in DOMAIN q |-> call.args.pub_keys[q[i]]]]
                     r == op_checkmultisig([ok |-> TRUE, main |-> MultisigStack(a),
                                            alt |-> <<>>])
                 IN  r.ok /\ r.main = <<Num(1)>>

\* two signatures by the second and the first listed key of three
C21_Witness ==
    /\ CheckDone /\ call.args.m = 2 /\ call.args.n = 3
    /\ call.args.pub_keys = <<1, 2, 3>>
    /\ call.args.signatures = <<sign_detached(HexLit(0), 2), sign_detached(HexLit(0), 1)>>
    /\ main_stack = <<Num(1)>>

DistinctKeys(a) ==
    \A i, j \in DOMAIN a.pub_keys : a.pub_keys[i] = a.pub_keys[j] => i = j

Operands(k) ==
    /\ Len(call.main) = k
    /\ \A i \in 1..k : call.main[i].tag = "Num"

\* the mathematical result x is pushed if it fits the word, else the handler fails
PushesExactly(x) ==
    IF x < 0 \/ x > USIZE_MAX THEN result = "false"
    ELSE result = "true" /\ main_stack = <<Num(x)>>

\* C23: OP_1ADD, OP_ADD, OP_2MUL and OP_MUL fail when the result would exceed
\* the largest word value, OP_1SUB and OP_SUB fail when the result would be
\* negative, and in every other case the exact mathematical result is pushed.
C23_ArithmeticNeverWraps ==
    (phase = "done" /\ call.name \in ArithmeticOps)
        => /\ (call.name = "OP_1ADD" /\ Operands(1) => PushesExactly(call.main[1].v + 1))
           /\ (call.name = "OP_1SUB" /\ Operands(1) => PushesExactly(call.main[1].v - 1))
           /\ (call.name = "OP_2MUL" /\ Operands(1) => PushesExactly(2 * call.main[1].v))
           /\ (call.name = "OP_ADD" /\ Operands(2)
                 => PushesExactly(call.main[1].v + call.main[2].v))
           /\ (call.name = "OP_SUB" /\ Operands(2)
                 => PushesExactly(call.main[1].v - call.main[2].v))
           /\ (call.name = "OP_MUL" /\ Operands(2)
                 => PushesExactly(call.main[1].v * call.main[2].v))

\* a product that does not fit the word
C23_Witness ==
    /\ phase = "done" /\ call.name = "OP_MUL"
    /\ call.main = <<Num(2), Num(USIZE_MAX)>> /\ result = "false"

\* C28: Stack.push returns false and leaves both stacks unchanged when given
\* an Op entry or a Bytes/PubKeyHash entry longer than MAX_SCRIPT_ITEM_SIZE;
\* otherwise it appends the entry on top of the main stack, leaves the alt
\* stack unchanged and returns true.
C28_PushRejectsOpAndOversize ==
    (phase = "done" /\ call.name = "push")
        => IF \/ call.args.tag = "Op"
              \/ /\ call.args.tag \in {"Bytes", "PubKeyHash"}
                 /\ call.args.v.len > 520
           THEN result = "false" /\ main_stack = call.main /\ alt_stack = call.alt
           ELSE /\ result = "true" /\ main_stack = Append(call.main, call.args)
                /\ alt_stack = call.alt

\* an item of exactly 520 bytes is accepted
C28_Witness ==
    /\ phase = "done" /\ call.name = "push"
    /\ call.args.tag = "Bytes" /\ call.args.v.len = 520
    /\ call.alt # <<>> /\ result = "true"
    /\ main_stack = Append(call.main, call.args)

(***************************************************************************)
(* ConditionStack driven by a sequence of push, pop and toggle             *)
(***************************************************************************)
\* longest sequence of operations on a ConditionStack
MaxCondOps == 4

CondOps ==
    { [op |-> "push", cond |-> TRUE], [op |-> "push", cond |-> FALSE],
      [op |-> "pop", cond |-> TRUE], [op |-> "toggle", cond |-> TRUE] }

InitCond ==
    /\ call \in UNION {[1..k -> CondOps] : k \in 0..MaxCondOps}
    /\ condition_stack = ConditionStack_new
    /\ phase = "running" /\ idx = 1 /\ result = "none"
    /\ script = <<>> /\ main_stack = <<>> /\ alt_stack = <<>>
    /\ test_for_return = TRUE /\ executed = 0 /\ breached = FALSE
    /\ outpoint_hash = None /\ tx_out_pub_key = None /\ tx = None /\ utxo = None
    /\ new_asset = None /\ druid = None /\ batch = None

\* the operation leaves the condition stack cs, or its assertion fails
CondReturned(asserted, cs) ==
    /\ IF asserted
       THEN condition_stack' = cs /\ idx' = idx + 1 /\ UNCHANGED <<phase, result>>
       ELSE phase' = "done" /\ result' = "panic" /\ UNCHANGED <<condition_stack, idx>>
    /\ UNCHANGED <<script, main_stack, alt_stack, test_for_return, executed,
                   breached, outpoint_hash, tx_out_pub_key, tx, utxo, call,
                   new_asset, druid, batch>>

CondPush ==
    /\ phase = "running" /\ idx <= Len(call) /\ call[idx].op = "push"
    /\ CondReturned(TRUE, ConditionStack_push(condition_stack, call[idx].cond))

CondPop ==
    /\ phase = "running" /\ idx <= Len(call) /\ call[idx].op = "pop"
    /\ CondReturned(condition_stack.size > 0, ConditionStack_pop(condition_stack))

CondToggle ==
    /\ phase = "running" /\ idx <= Len(call) /\ call[idx].op = "toggle"
    /\ CondReturned(condition_stack.size > 0, ConditionStack_toggle(condition_stack))

NextCond == CondPush \/ CondPop \/ CondToggle

SpecCond == InitCond /\ [][NextCond]_vars

\* the stack of booleans after the first k operations of ops: push appends,
\* pop removes the top, toggle negates the top
RECURSIVE BoolStack(_, _)
BoolStack(ops, k) ==
    IF k = 0 THEN <<>>
    ELSE LET b == BoolStack(ops, k - 1)
         IN  CASE ops[k].op = "push" -> Append(b, ops[k].cond)
               [] ops[k].op = "pop" -> SubSeq(b, 1, Len(b) - 1)
               [] ops[k].op = "toggle" -> [b EXCEPT ![Len(b)] = ~b[Len(b)]]

\* C26: after any sequence of push(c), pop and toggle (pop and toggle only
\* when size > 0), size is the length of the stack of booleans,
\* first_false_pos is the least index holding false (absent if none), and
\* all_true() holds exactly when every boolean is true.
C26_ConditionStackRefinesBooleans ==
    LET b == BoolStack(call, idx - 1)
        falses == {i \in DOMAIN b : ~b[i]}
    IN  /\ condition_stack.size = Len(b)
        /\ condition_stack.first_false_pos
              = IF falses = {} THEN None
                ELSE Some((CHOOSE i \in falses : \A j \in falses : i <= j) - 1)
        /\ ConditionStack_all_true(condition_stack) <=> \A i \in DOMAIN b : b[i]
        /\ ConditionStack_is_empty(condition_stack) <=> b = <<>>

\* push(true), push(false), toggle, pop: the false pushed second was toggled away
C26_Witness ==
    /\ idx = 5 /\ call[1] = [op |-> "push", cond |-> TRUE]
    /\ call[2] = [op |-> "push", cond |-> FALSE]
    /\ call[3].op = "toggle" /\ call[4].op = "pop"
    /\ condition_stack = [size |-> 1, first_false_pos |-> None]

(***************************************************************************)
(* Further properties of interpret                                         *)
(***************************************************************************)
\* longest script whose run is compared state by state
MaxTrace == 8

\* the main and alt stacks after the first k entries of s, from empty stacks
StacksAfter(s, k) ==
    LET r == run_entries(s, 1, k, [ok |-> TRUE, main |-> <<>>, alt |-> <<>>])
    IN  <<r.main, r.alt>>

OpensSkippedBranch ==
    /\ Script_is_valid(script) /\ Len(script) >= 3
    /\ script[1] = Op("OP_0") /\ script[2] = Op("OP_IF")
    /\ script[3] \notin {Op("OP_IF"), Op("OP_NOTIF"), Op("OP_ELSE"), Op("OP_ENDIF")}

\* C25: while the condition stack is not all-true only the conditionals are
\* executed, every other entry leaves the stacks unchanged and cannot fail
\* the script: after OP_0 OP_IF the condition stack is not all-true, the
\* entry that follows is passed over and the stacks stay empty.
C25_NonExecutingEntriesSkipped ==
    (OpensSkippedBranch /\ executed >= 2)
        => /\ ~ConditionStack_all_true(condition_stack)
           /\ phase = "done" => idx > 3
           /\ executed = 3 => main_stack = <<>> /\ alt_stack = <<>>

\* the entry about to be executed is a conditional that has nothing to work
\* on: OP_IF / OP_NOTIF on an empty main stack, OP_ELSE / OP_ENDIF on an
\* empty condition stack
ConditionalOnEmpty ==
    /\ phase = "running" /\ idx <= Len(script)
    /\ \/ script[idx] \in {Op("OP_IF"), Op("OP_NOTIF")} /\ main_stack = <<>>
       \/ /\ script[idx] \in {Op("OP_ELSE"), Op("OP_ENDIF")}
          /\ ConditionStack_is_empty(condition_stack)

\* C27: OP_IF or OP_NOTIF on an empty main stack, and OP_ELSE or OP_ENDIF on
\* an empty condition stack, make interpret return false; the condition
\* stack is left alone and no run ends in a failed assertion.
C27_ConditionalOnEmptyFails ==
    [][/\ ConditionalOnEmpty
          => /\ phase' = "done" /\ result' = "false"
             /\ condition_stack' = condition_stack
       /\ result' # "panic"]_vars

\* OP_ENDIF met after an entry was executed, with no conditional open
C27_Witness ==
    /\ phase = "done" /\ result = "false" /\ idx = 2 /\ executed = 2
    /\ script[2] = Op("OP_ENDIF") /\ ConditionStack_is_empty(condition_stack)

(***************************************************************************)
(* Further properties of the script templates                              *)
(***************************************************************************)
\* C29: a script built by multisig_lock(m, n, check_data, pub_keys) that was
\* not rejected is [Bytes(check_data), Num(m), PubKey x n, Num(n),
\* OP_CHECKMULTISIG]: n PubKey entries stand between Num(m) and Num(n).
C29_MultisigLockShape ==
    (/\ phase # "build" /\ call.name = "multisig_lock"
     /\ ~multisig_rejects(call.m, call.n, Len(call.pub_keys)))
        => /\ Len(script) = call.n + 4
           /\ script[1] = Bytes(call.check_data) /\ script[2] = Num(call.m)
           /\ \A i \in 3..(call.n + 2) : script[i].tag = "PubKey"
           /\ script[call.n + 3] = Num(call.n)
           /\ script[call.n + 4] = Op("OP_CHECKMULTISIG")

\* C30: pay2pkh builds [Bytes(check_data), Signature, PubKey, OP_DUP, H,
\* PubKeyHash(address_for(pub_key, address_version)), OP_EQUALVERIFY,
\* OP_CHECKSIG] with H = OP_HASH256_V0 for version V0, OP_HASH256_TEMP for
\* version TEMP and OP_HASH256 otherwise; H applied to the public key gives
\* the embedded PubKeyHash and the run passes OP_EQUALVERIFY.
C30_Pay2pkhHashFollowsVersion ==
    (phase # "build" /\ call.name = "pay2pkh")
        => LET H == IF call.address_version = Some(NETWORK_VERSION_V0)
                    THEN "OP_HASH256_V0"
                    ELSE IF call.address_version = Some(NETWORK_VERSION_TEMP)
                    THEN "OP_HASH256_TEMP" ELSE "OP_HASH256"
               hashed == ExecOp(H, [ok |-> TRUE, main |-> <<PubKey(call.pub_keys[1])>>,
                                    alt |-> <<>>])
           IN  /\ script = << Bytes(call.check_data), Signature(call.signatures[1]),
                              PubKey(call.pub_keys[1]), Op("OP_DUP"), Op(H),
                              PubKeyHash(construct_address_for(call.pub_keys[1],
                                                               call.address_version)),
                              Op("OP_EQUALVERIFY"), Op("OP_CHECKSIG") >>
               /\ hashed.ok /\ hashed.main = <<script[6]>>
               /\ phase = "done" => executed = 8

C30_Witness ==
    /\ phase = "done" /\ call.name = "pay2pkh" /\ result = "true" /\ executed = 8
    /\ call.address_version = Some(NETWORK_VERSION_TEMP)
    /\ script[5] = Op("OP_HASH256_TEMP")

(***************************************************************************)
(* OP_EQUALVERIFY against OP_EQUAL, OP_VERIFY                              *)
(***************************************************************************)
\* entries before the compared opcode
EquivPrefixAlphabet ==
    { Op("OP_1"), Op("OP_2"), Op("OP_DUP"), Op("OP_TOALTSTACK"),
      Num(0), Bytes(HexLit(0)) }

EquivPrefixes == UNION {[1..n -> EquivPrefixAlphabet] : n \in 0..MaxLen}

\* entries after the compared opcode
EquivSuffixes ==
    { <<>>, <<Op("OP_1")>>, <<Op("OP_0")>>, <<Op("OP_FROMALTSTACK")>>,
      <<Num(1), Op("OP_VERIFY")>> }

\* scripts holding OP_EQUALVERIFY once: test_equalverify, every short prefix
\* and suffix around the opcode, and scripts at the limits of is_valid
EqualverifyScripts ==
    LET big == Bytes(Str(<<"a">>, 500))
    IN  { p \o <<Op("OP_EQUALVERIFY")>> \o q :
            p \in EquivPrefixes, q \in EquivSuffixes }
        \cup { <<Num(1), Num(1), Op("OP_EQUALVERIFY"), Op("OP_1")>>
                   \o Repeat(Op("OP_NOP"), k) :
               k \in {MAX_OPS_PER_SCRIPT - 3, MAX_OPS_PER_SCRIPT - 2,
                      MAX_OPS_PER_SCRIPT - 1} }
        \cup { Repeat(big, 19) \o <<Bytes(Str(<<"a">>, k)), Num(1), Num(1),
                                    Op("OP_EQUALVERIFY")>> :
               k \in {482, 483, 484} }

InitEquiv ==
    /\ script \in EqualverifyScripts
    /\ Idle
    /\ outpoint_hash = None /\ tx_out_pub_key = None /\ tx = None /\ utxo = None
    /\ call = None /\ new_asset = None /\ druid = None /\ batch = None

SpecEquiv == InitEquiv /\ [][Next]_vars

\* the position of the first OP_EQUALVERIFY of a script
EqualverifyAt(s) ==
    CHOOSE i \in 1..Len(s) :
        /\ s[i] = Op("OP_EQUALVERIFY")
        /\ \A j \in 1..(i - 1) : s[j] # Op("OP_EQUALVERIFY")

\* the script with its first OP_EQUALVERIFY replaced by OP_EQUAL, OP_VERIFY
EqualThenVerify(s) ==
    LET i == EqualverifyAt(s)
    IN  SubSeq(s, 1, i - 1) \o <<Op("OP_EQUAL"), Op("OP_VERIFY")>>
            \o SubSeq(s, i + 1, Len(s))

\* the run has executed OP_EQUALVERIFY and goes on; the run of the replaced
\* script passes OP_EQUAL and OP_VERIFY and reaches the same stacks
SameStacksAfterReplaced ==
    (phase = "running" /\ executed = EqualverifyAt(script))
        => LET i == EqualverifyAt(script)
               t == EqualThenVerify(script)
               before == run_entries(t, 1, i - 1, Stack_new)
               r1 == ExecEntry(t[i], before)
               r2 == ExecEntry(t[i + 1], r1)
           IN  /\ before.ok /\ r1.ok /\ r2.ok
               /\ <<r2.main, r2.alt>> = <<main_stack, alt_stack>>

\* C31 as stated: for all P and Q, interpret(P ++ [OP_EQUALVERIFY] ++ Q) and
\* interpret(P ++ [OP_EQUAL, OP_VERIFY] ++ Q) return the same verdict, and
\* they reach the same stacks after the replaced opcodes when neither fails.
C31_EqualverifyIsEqualThenVerify ==
    /\ phase = "done" => result = Verdict(interpret_halved(EqualThenVerify(script)))
    /\ SameStacksAfterReplaced

\* C31: when P ++ [OP_EQUAL, OP_VERIFY] ++ Q is within the limits of
\* Script::is_valid, interpret returns the same verdict on it and on
\* P ++ [OP_EQUALVERIFY] ++ Q, and the two runs reach the same main and alt
\* stacks after the replaced opcodes when neither fails.
C31_EqualverifyIsEqualThenVerifyWithinLimits ==
    Script_is_valid(EqualThenVerify(script))
        => /\ phase = "done"
                => result = Verdict(interpret_halved(EqualThenVerify(script)))
           /\ SameStacksAfterReplaced

\* test_equalverify: [Num(1), Num(1), OP_EQUALVERIFY, ...] passes, and the
\* run went on after the opcode with an item left on the stack
C31_Witness ==
    /\ phase = "done" /\ result = "true"
    /\ script[1] = Op("OP_1") /\ script[2] = Op("OP_DUP")
    /\ EqualverifyAt(script) = 4 /\ executed = 5
    /\ Script_is_valid(EqualThenVerify(script))
    /\ interpret(EqualThenVerify(script))

(***************************************************************************)
(* tx_outs_are_valid applied to bounded outputs and spent values           *)
(***************************************************************************)
\* hex::encode([0; n]) and other strings, by their length in characters
AddressOfLen(len) == Str(<<"hex", 0>>, len)

\* lengths around the two accepted ones (test_validate_addresses_correctly
\* rejects the 128 characters of hex::encode([0; 64]))
AddressLens == {0, 31, 32, 33, 64, 65, 128}

OutsOutputs ==
    { TxOut(Token(1), Some(AddressOfLen(len))) : len \in AddressLens }
        \cup { TxOut(Token(1), None), TxOut(Token(2), None),
               TxOut(Receipt(1, Some(TxHash(1)), None), Some(construct_address(2))),
               TxOut(Receipt(1, Some(TxHash(1)), None), None),
               TxOut(Receipt(1, Some(TxHash(1)), None), Some(AddressOfLen(33))) }

OutsSpent ==
    { [tokens |-> t, receipts |-> r] :
        t \in 0..3, r \in {<<>>, <<<<TxHash(1), 1>>>>} }

OutsCalls ==
    { [name |-> "tx_outs_are_valid", tx_outs |-> outs, tx_ins_spent |-> spent] :
        outs \in UNION {[1..n -> OutsOutputs] : n \in 0..MaxOuts},
        spent \in OutsSpent }

InitOuts ==
    /\ call \in OutsCalls
    /\ Idle
    /\ script = <<>> /\ outpoint_hash = None /\ tx_out_pub_key = None
    /\ tx = None /\ utxo = None /\ new_asset = None /\ druid = None /\ batch = None

TxOutsAreValid ==
    /\ phase = "ready"
    /\ phase' = "done"
    /\ result' = Verdict(tx_outs_are_valid(call.tx_outs, call.tx_ins_spent))
    /\ UNCHANGED <<script, idx, main_stack, alt_stack, condition_stack,
                   test_for_return, executed, breached, outpoint_hash,
                   tx_out_pub_key, tx, utxo, call,
                   new_asset, druid, batch>>

NextOuts == TxOutsAreValid

SpecOuts == InitOuts /\ [][NextOuts]_vars

\* the AssetValues of all the outputs, added up in order
RECURSIVE Accumulated(_)
Accumulated(outs) ==
    IF outs = <<>> THEN AssetValues_default
    ELSE AssetValues_update_add(Accumulated(SubSeq(outs, 1, Len(outs) - 1)),
                                outs[Len(outs)].value)

BadAddress(out) ==
    /\ out.script_public_key # None
    /\ out.script_public_key[1].len \notin {32, 64}

\* C32: tx_outs_are_valid returns false if any output carries an address
\* whose length is neither 32 nor 64; outputs without an address are not
\* length-checked, and when every addressed output passes the result is the
\* equality of the outputs' accumulated AssetValues with the spent ones.
C32_OutputsAddressLengthThenConservation ==
    phase = "done"
        => IF \E i \in DOMAIN call.tx_outs : BadAddress(call.tx_outs[i])
           THEN result = "false"
           ELSE result = Verdict(AssetValues_is_equal(Accumulated(call.tx_outs),
                                                      call.tx_ins_spent))

\* a 32-character address, an output without address and matching totals
C32_Witness ==
    /\ phase = "done" /\ result = "true"
    /\ Len(call.tx_outs) = 2
    /\ call.tx_outs[1].script_public_key = Some(AddressOfLen(32))
    /\ call.tx_outs[2].script_public_key = None
    /\ call.tx_ins_spent.tokens = 3

(***************************************************************************)
(* Further properties of druid_expectations_are_met                        *)
(***************************************************************************)
\* the batch without the transactions that lack druid_info or carry another
\* druid, in the order of the batch
RECURSIVE MatchingOnly(_)
MatchingOnly(transactions) ==
    IF transactions = <<>> THEN <<>>
    ELSE LET rest == MatchingOnly(Tail(transactions))
         IN  IF Matching(Head(transactions))
             THEN <<Head(transactions)>> \o rest ELSE rest

\* C33: transactions without druid_info, or whose druid differs from the
\* given druid, contribute neither expectations nor realized triples:
\* druid_expectations_are_met gives the same result on a batch and on the
\* batch with all such transactions removed, and an expectation that only
\* the output of a non-matching transaction would realize stays unmet.
C33_NonMatchingTransactionsIgnored ==
    phase = "done"
        => /\ result = Verdict(druid_expectations_are_met(druid, MatchingOnly(batch)))
           /\ (\E i \in DOMAIN batch :
                  /\ Matching(batch[i])
                  /\ \E k \in DOMAIN batch[i].druid_info[1].expectations :
                        ~Realized(batch[i].druid_info[1].expectations[k]))
                 => result = "false"

\* should_fail_rb_payment_druid_mismatch: the only output that would realize
\* the expectation of the matching transaction is on a non-matching one
C33_Witness ==
    /\ phase = "done" /\ result = "false" /\ Len(batch) = 2
    /\ ~Matching(batch[1]) /\ Matching(batch[2])
    /\ Len(MatchingOnly(batch)) = 1
    /\ batch[1].inputs = InsB /\ batch[1].outputs = <<TxOut(Token(1), Some(Bob))>>
    /\ batch[2].inputs = InsA /\ batch[2].outputs = <<TxOut(Token(1), Some(Alice)),
                                                      TxOut(Token(1), Some(Bob))>>
    /\ batch[2].druid_info[1].expectations
          = <<DruidExpectation(InsHash(InsB), Bob, Token(1))>>

(***************************************************************************)
(* Termination of interpret                                                *)
(***************************************************************************)
\* the scripts of the runs followed to their end: the enumerated scripts and
\* longer runs of entries that pass, fail midway, and fill the alt stack
TerminationInputs ==
    ShortScripts \cup ConditionalScripts \cup UnbalancedScripts
        \cup CatalogueScripts \cup Pay2pkhScripts
        \cup { Repeat(Op("OP_NOP"), 40) \o <<Op("OP_1")>>,
               Repeat(Num(1), 40),
               Repeat(Op("OP_1"), 20) \o <<Op("OP_RETURN")>> \o Repeat(Op("OP_1"), 20),
               Repeat(Op("OP_1"), 20) \o Repeat(Op("OP_TOALTSTACK"), 21) }

InitTerminates ==
    /\ script \in TerminationInputs
    /\ Idle
    /\ outpoint_hash = None /\ tx_out_pub_key = None /\ tx = None /\ utxo = None
    /\ call = None /\ new_asset = None /\ druid = None /\ batch = None

\* interpret is sequential code: a step that can be taken is taken
SpecTerminates == InitTerminates /\ [][Next]_vars /\ WF_vars(Next)

\* C34: interpret terminates on every script: it visits the entries once
\* each in script order, with no jump or repetition (the entry executed next
\* is always the one after the entries executed so far), and returns a
\* verdict after executing at most as many entries as the script contains.
C34_VisitsEachEntryOnceAndTerminates ==
    /\ [](/\ executed <= Len(script)
          /\ phase = "running" => idx = executed + 1
          /\ phase = "done" => result \in {"true", "false"})
    /\ [][(phase = "running" /\ phase' = "running")
             => (idx' = idx + 1 /\ executed' = executed + 1)]_vars
    /\ <>(phase = "done")

\* a run that executed every entry of a script holding an OP_NOP
C34_Witness ==
    /\ phase = "done" /\ result = "true" /\ Len(script) = 3 /\ executed = 3
    /\ script[1] = Op("OP_NOP") /\ script[2] = Op("OP_1") /\ script[3] = Op("OP_DUP")

(***************************************************************************)
(* Further properties of tx_is_valid                                       *)
(***************************************************************************)
\* C35: tx_is_valid returns a boolean for every transaction and every UTXO
\* lookup: an input whose previous_out is absent makes it return false
\* rather than abort.
C35_AbsentPreviousOutRejected ==
    phase = "done"
        => /\ result \in {"true", "false"}
           /\ (\E i \in DOMAIN tx.inputs : tx.inputs[i].previous_out = None)
                 => result = "false"

\* C36: interpret of a script built by multisig_validation(m, n, check_data,
\* signatures, pub_keys) with n equal to the number of public keys returns
\* true only if the number of supplied signatures equals m.
C36_ValidationTrueOnlyWithMSignatures ==
    (/\ phase = "done" /\ call.name = "multisig_validation"
     /\ call.n = Len(call.pub_keys) /\ result = "true")
        => Len(call.signatures) = call.m

\* C37: druid_expectations_are_met returns true whenever no transaction of
\* the batch carries the given druid (the empty batch included), because no
\* expectation is then collected.
C37_NoMatchingTransactionPasses ==
    (phase = "done" /\ \A i \in DOMAIN batch : ~Matching(batch[i]))
        => /\ result = "true"
           /\ druid_loop(batch, 1, [expects |-> {}, expectation_collect |-> {}],
                         druid).expects = {}

\* a transaction without druid_info and one of another druid whose
\* expectation no output realizes
C37_Witness ==
    /\ phase = "done" /\ result = "true" /\ Len(batch) = 2
    /\ batch[1].druid_info = None
    /\ batch[2].druid_info # None /\ batch[2].druid_info[1].druid # druid
    /\ batch[2].druid_info[1].expectations # <<>>
    /\ batch[1].outputs = <<>> /\ batch[2].outputs = <<>>

(***************************************************************************)
(* druid_expectations_are_met on transactions of any number of participants*)
(***************************************************************************)
\* druid-matching transactions declaring none, one or both expectations of a
\* trade, with one or two participants
ParticipantTxs ==
    { DruidTx(ins, outs, Some(DruidInfo("VALUE", p, es))) :
        ins \in {InsA, InsB},
        outs \in { <<>>, <<TxOut(Token(1), Some(Bob))>>,
                   <<TxOut(Token(1), Some(Alice)), TxOut(Token(1), Some(Bob))>> },
        p \in {1, 2},
        es \in { <<>>, <<DruidExpectation(InsHash(InsA), Bob, Token(1))>>,
                 <<DruidExpectation(InsHash(InsA), Bob, Token(1)),
                   DruidExpectation(InsHash(InsA), Alice, Token(1))>> } }

InitParticipants ==
    /\ druid = "VALUE"
    /\ batch \in UNION {[1..k -> ParticipantTxs] : k \in 0..MaxBatch}
    /\ Idle
    /\ script = <<>> /\ outpoint_hash = None /\ tx_out_pub_key = None
    /\ tx = None /\ utxo = None /\ call = None /\ new_asset = None

SpecParticipants == InitParticipants /\ [][NextDruid]_vars

\* the batch with the participants of every druid_info set to p
WithParticipants(transactions, p) ==
    [i \in DOMAIN transactions |->
        IF transactions[i].druid_info = None THEN transactions[i]
        ELSE [transactions[i] EXCEPT !.druid_info[1].participants = p]]

\* every expectation of t is the triple of an address-carrying output of t
RealizesItsOwn(t) ==
    \A k \in DOMAIN t.druid_info[1].expectations :
        LET e == t.druid_info[1].expectations[k]
        IN  <<e.from, e.to, e.asset>> \in RealizedBy(t)

\* C38: druid_expectations_are_met depends neither on
\* druid_info.participants nor on which matching transaction realizes an
\* expectation: an expectation declared by a transaction is met by an
\* address-carrying output of that same transaction, so a single
\* druid-matching transaction whose own outputs realize all its expectations
\* passes alone.
C38_ParticipantsAndRealizerIrrelevant ==
    phase = "done"
        => /\ \A p \in 0..3 :
                 result = Verdict(druid_expectations_are_met(
                                      druid, WithParticipants(batch, p)))
           /\ (\A i \in DOMAIN batch : Matching(batch[i]) => RealizesItsOwn(batch[i]))
                 => result = "true"

\* one matching transaction with a single participant passes alone: its two
\* outputs realize its two expectations
C38_Witness ==
    /\ phase = "done" /\ result = "true" /\ Len(batch) = 1
    /\ Matching(batch[1]) /\ batch[1].druid_info[1].participants = 1
    /\ Len(batch[1].druid_info[1].expectations) = 2
    /\ RealizesItsOwn(batch[1])

====
